---- MODULE Spec2Model ----
(***************************************************************************)
(* Model lifecycle of the expense predictor (PrediccionGastos) and of the  *)
(* anomaly detector (DetectorAnomalias) of gestor_gastos, over the ledger  *)
(* kept by DatabaseManager; the alerts of SistemaAlertas over the ledger   *)
(* and the budget table; the statistics of AnalisisFinanciero over its     *)
(* snapshot of the ledger.                                                 *)
(*                                                                         *)
(* Money is counted in thousandths of a currency unit, so that rounding to *)
(* two decimals is a real conversion.  The ledger is a bag: the number of  *)
(* stored rows of each transaction shape.  A fitted scikit-learn estimator *)
(* is represented by the data it was fitted on; its predict is a fixed     *)
(* function of that data and of the feature row it is given.               *)
(***************************************************************************)
EXTENDS Integers, Sequences, FiniteSets, TLC

VARIABLES transacciones, predictor, prediccion_gastos_pkl, p_guardado, p_ret,
          detector, detector_anomalias_pkl, d_guardado, d_ret,
          presupuestos, alertas_json, a_ret, transacciones_df, e_ret, l_ret

vars == <<transacciones, predictor, prediccion_gastos_pkl, p_guardado, p_ret,
          detector, detector_anomalias_pkl, d_guardado, d_ret,
          presupuestos, alertas_json, a_ret, transacciones_df, e_ret,
          l_ret>>

p_vars == <<predictor, prediccion_gastos_pkl, p_guardado, p_ret>>

d_vars == <<detector, detector_anomalias_pkl, d_guardado, d_ret>>

\* the budget table, the file alertas.json and what the last step returned
\* if it was a call of SistemaAlertas
a_vars == <<presupuestos, alertas_json, a_ret>>

\* the DataFrame of AnalisisFinanciero and what the last step returned if
\* it was a call of AnalisisFinanciero
e_vars == <<transacciones_df, e_ret>>

None == "None"

\* None where an object (an estimator, a snapshot file) is expected
NoneType == [clase |-> "NoneType"]

(***************************************************************************)
(* Bounds of the exploration.                                              *)
(***************************************************************************)
MaxTransacciones == 51

(***************************************************************************)
(* Dates.                                                                  *)
(***************************************************************************)
Fecha(a, m, d, h) ==
  [anio |-> a, mes |-> m, dia |-> d, hora |-> h, minuto |-> 0]

FechaHM(a, m, d, h, mi) == [Fecha(a, m, d, h) EXCEPT !.minuto = mi]

SakamotoT == <<0, 3, 2, 5, 0, 3, 5, 1, 4, 6, 2, 4>>

\* datetime.weekday(): Monday = 0 ... Sunday = 6
Weekday(f) ==
  LET y == IF f.mes < 3 THEN f.anio - 1 ELSE f.anio
      dom == (y + (y \div 4) - (y \div 100) + (y \div 400)
                + SakamotoT[f.mes] + f.dia) % 7
  IN (dom + 6) % 7

EsBisiesto(a) == (a % 4 = 0 /\ a % 100 # 0) \/ a % 400 = 0

\* calendar.monthrange(anio, mes)[1]
DiasMes(a, m) ==
  IF m = 2 THEN (IF EsBisiesto(a) THEN 29 ELSE 28)
  ELSE IF m \in {4, 6, 9, 11} THEN 30 ELSE 31

\* the days of the year a before its month m
DiasAntesDeMes(a, m) ==
  <<0, 31, 59, 90, 120, 151, 181, 212, 243, 273, 304, 334>>[m]
    + (IF m > 2 /\ EsBisiesto(a) THEN 1 ELSE 0)

\* days from 2001-01-01 to the first day of the year a
DiasAntesDeAnio(a) ==
  LET y == a - 2001 IN 365 * y + (y \div 4) - (y \div 100) + (y \div 400)

\* a datetime as minutes on one axis, the way datetimes are compared and
\* subtracted
Minutos(f) ==
  (((DiasAntesDeAnio(f.anio) + DiasAntesDeMes(f.anio, f.mes) + f.dia - 1) * 24
     + f.hora) * 60) + f.minuto

\* hoy.replace(day=1, hour=0, minute=0, second=0, microsecond=0)
InicioMes(f) == FechaHM(f.anio, f.mes, 1, 0, 0)

\* the readings of datetime.now() that the calls are exercised with
Instantes == { Fecha(2026, 11, 5, 9), Fecha(2026, 12, 27, 23) }

(***************************************************************************)
(* Transaction shapes that the ledger operations are exercised with.       *)
(***************************************************************************)
Salario ==
  [tipo |-> "ingreso", monto |-> 3000000, categoria |-> "Salario",
   subcategoria |-> None, metodo_pago |-> "Transferencia",
   fecha |-> Fecha(2026, 11, 1, 8), es_recurrente |-> 0]

\* an expense of 0.004, which rounds to 0.00
Redondeo ==
  [tipo |-> "gasto", monto |-> 4, categoria |-> "Otros",
   subcategoria |-> None, metodo_pago |-> "Efectivo",
   fecha |-> Fecha(2026, 11, 3, 13), es_recurrente |-> 0]

Taxi ==
  [tipo |-> "gasto", monto |-> 42500, categoria |-> "Transporte",
   subcategoria |-> "Taxi", metodo_pago |-> "PayPal",
   fecha |-> Fecha(2026, 11, 28, 23), es_recurrente |-> 1]

Plantillas == {Salario, Redondeo, Taxi}

\* sizes of the bulk insertions: the two training minima (lines 30 and 40)
Lotes == {30, 50}

Abs(x) == IF x < 0 THEN -x ELSE x

\* the row counts of one shape that are explored: around zero and around
\* each training minimum
Niveles == {0, 1} \cup {l + d : l \in Lotes, d \in {0 - 1, 0, 1}}

(***************************************************************************)
(* Transaction shapes that the alerts and the statistics are exercised     *)
(* with: amounts around the thresholds of a budget of 1000.00, expenses a  *)
(* few minutes and a fraction of a cent apart, an income.                  *)
(***************************************************************************)
Gasto(monto, categoria, fecha) ==
  [tipo |-> "gasto", monto |-> monto, categoria |-> categoria,
   subcategoria |-> None, metodo_pago |-> "Efectivo",
   fecha |-> fecha, es_recurrente |-> 0]

Cafe == Gasto(200000, "Comida", FechaHM(2026, 11, 10, 10, 0))

\* half a cent dearer, 20 minutes later
CafeBis == Gasto(200005, "Comida", FechaHM(2026, 11, 10, 10, 20))

\* two cents dearer, 10 minutes later
CafeCaro == Gasto(200020, "Comida", FechaHM(2026, 11, 10, 10, 10))

\* the same amount, 90 minutes later
CafeTarde == Gasto(200000, "Comida", FechaHM(2026, 11, 10, 11, 30))

\* the same amount at the same minute in another category
Bus == Gasto(200000, "Transporte", FechaHM(2026, 11, 10, 10, 0))

Compra == Gasto(400000, "Comida", FechaHM(2026, 11, 8, 18, 0))

Mercado == Gasto(450000, "Comida", FechaHM(2026, 11, 9, 9, 0))

\* an expense of the previous month
Octubre == Gasto(900000, "Comida", FechaHM(2026, 10, 31, 23, 59))

Venta ==
  [tipo |-> "ingreso", monto |-> 500000, categoria |-> "Comida",
   subcategoria |-> None, metodo_pago |-> "Transferencia",
   fecha |-> FechaHM(2026, 11, 10, 9, 30), es_recurrente |-> 0]

(***************************************************************************)
(* Transaction shapes that the statistics are exercised with: a category   *)
(* of equal small expenses with one larger expense, a category of four     *)
(* expenses of which 13.00 is the mean of the other three plus three times *)
(* their standard deviation, an income.                                    *)
(***************************************************************************)
Pan == Gasto(1000, "Comida", FechaHM(2026, 11, 4, 8, 0))

Cena ==
  [Gasto(2000, "Comida", FechaHM(2026, 11, 4, 21, 0))
     EXCEPT !.es_recurrente = 1, !.metodo_pago = "PayPal"]

Nueve == Gasto(9000, "Ocio", FechaHM(2026, 11, 6, 10, 0))

Diez == Gasto(10000, "Ocio", FechaHM(2026, 11, 6, 11, 0))

Once == Gasto(11000, "Ocio", FechaHM(2026, 11, 6, 12, 0))

Trece == Gasto(13000, "Ocio", FechaHM(2026, 11, 7, 12, 0))

Propina ==
  [tipo |-> "ingreso", monto |-> 50000, categoria |-> "Salario",
   subcategoria |-> None, metodo_pago |-> "Efectivo",
   fecha |-> FechaHM(2026, 11, 5, 9, 0), es_recurrente |-> 0]

\* the most rows of the shape Pan
MaxPan == 8

\* the expense that a history of daily expenses is made of
Diario == Gasto(25000, "Hogar", FechaHM(2026, 11, 2, 12, 0))

\* the most rows of one shape that the alerts are exercised with
MaxIguales == 3

\* the shapes that are stored more than once
Repetibles == {Cafe}

NivelesDe(k) ==
  IF k \in Plantillas THEN Niveles
  \* none, or the smaller lot
  ELSE IF k = Diario THEN {0} \cup {l \in Lotes : \A m \in Lotes : l <= m}
  ELSE IF k \in Repetibles THEN 0 .. MaxIguales ELSE {0, 1}

RECURSIVE SumaDe(_, _)
SumaDe(f, S) ==
  IF S = {} THEN 0
  ELSE LET x == CHOOSE y \in S : TRUE IN f[x] + SumaDe(f, S \ {x})

\* len(db_manager.obtener_todas_transacciones())
NumTransacciones(tx) == SumaDe(tx, DOMAIN tx)

\* the rows with t.tipo == 'gasto'
Gastos(tx) == {k \in DOMAIN tx : k.tipo = "gasto" /\ tx[k] > 0}

NumGastos(tx) == SumaDe(tx, Gastos(tx))

(***************************************************************************)
(* sklearn.preprocessing.LabelEncoder: classes_ is the sorted set of the   *)
(* fitted values, transform gives the index of a value in classes_ and     *)
(* raises ValueError on a value that was not fitted.                       *)
(***************************************************************************)
Orden ==
  [s \in {"Efectivo", "Otros", "PayPal", "Salud",
          "Sin subcategoria", "Taxi", "Transporte"} |->
     CASE s = "Efectivo" -> 1
       [] s = "Otros" -> 2
       [] s = "PayPal" -> 3
       [] s = "Salud" -> 4
       [] s = "Sin subcategoria" -> 5
       [] s = "Taxi" -> 6
       [] s = "Transporte" -> 7]

LabelFit(valores) == valores

LabelVisto(clases, v) == v \in clases

\* the element of a one-element set: Unico({e : x \in {v}}) is e with x
\* standing for the value v, computed once
Unico(S) == CHOOSE x \in S : TRUE

LabelTransform(clases, v) == Cardinality({c \in clases : Orden[c] < Orden[v]})

Put(d, k, v) == [x \in (DOMAIN d) \cup {k} |-> IF x = k THEN v ELSE d[x]]

Rango(s) == {s[i] : i \in DOMAIN s}

(***************************************************************************)
(* PrediccionGastos                                                        *)
(***************************************************************************)
MinTransaccionesPrediccion == 50

MinMuestrasPrediccion == 50

TransaccionesMes == 20

PredictorNuevo ==
  [model |-> NoneType, label_encoders |-> <<>>, feature_columns |-> <<>>,
   is_trained |-> FALSE]

categorical_features == <<"categoria", "subcategoria", "metodo_pago">>

feature_columns_entrenamiento ==
  <<"dia_semana", "dia_mes", "mes", "trimestre",
    "es_fin_semana", "es_inicio_mes", "es_fin_mes", "es_recurrente",
    "categoria_encoded", "subcategoria_encoded", "metodo_pago_encoded">>

\* t.subcategoria or 'Sin subcategoria'
Subcategoria(v) == IF v = None THEN "Sin subcategoria" ELSE v

ValorCategorico(k, col) ==
  IF col = "subcategoria" THEN Subcategoria(k.subcategoria) ELSE k[col]

\* the temporal features and the recurrence flag of one row
FeaturesTemporales(f, rec) ==
  [dia_semana |-> Weekday(f), dia_mes |-> f.dia, mes |-> f.mes,
   trimestre |-> ((f.mes - 1) \div 3) + 1,
   es_fin_semana |-> IF Weekday(f) >= 5 THEN 1 ELSE 0,
   es_inicio_mes |-> IF f.dia <= 5 THEN 1 ELSE 0,
   es_fin_mes |-> IF f.dia >= 25 THEN 1 ELSE 0,
   es_recurrente |-> IF rec THEN 1 ELSE 0]

ConCodigos(ft, cat, sub, met) ==
  [c \in (DOMAIN ft) \cup
         {"categoria_encoded", "subcategoria_encoded", "metodo_pago_encoded"} |->
     CASE c = "categoria_encoded" -> cat
       [] c = "subcategoria_encoded" -> sub
       [] c = "metodo_pago_encoded" -> met
       [] OTHER -> ft[c]]

\* df[cols]: the columns of a row in the order of cols
Seleccionar(fila, cols) ==
  [columnas |-> cols, x |-> [c \in Rango(cols) |-> fila[c]]]

\* the loop over categorical_features of preparar_datos: an encoder that
\* is already stored is reused (transform), an absent one is fitted
RECURSIVE CodificarColumnas(_, _, _)
CodificarColumnas(enc, i, G) ==
  IF i > Len(categorical_features)
  THEN [label_encoders |-> enc, exc |-> None]
  ELSE LET col == categorical_features[i]
           valores == {ValorCategorico(k, col) : k \in G}
       IN IF col \notin DOMAIN enc
          THEN CodificarColumnas(Put(enc, col, LabelFit(valores)), i + 1, G)
          ELSE IF \A v \in valores : LabelVisto(enc[col], v)
               THEN CodificarColumnas(enc, i + 1, G)
               ELSE [label_encoders |-> enc, exc |-> "ValueError"]

FilaEntrenamiento(k, enc) ==
  [x |-> ConCodigos(FeaturesTemporales(k.fecha, k.es_recurrente = 1),
                    LabelTransform(enc["categoria"], ValorCategorico(k, "categoria")),
                    LabelTransform(enc["subcategoria"], ValorCategorico(k, "subcategoria")),
                    LabelTransform(enc["metodo_pago"], ValorCategorico(k, "metodo_pago"))),
   y |-> k.monto]

\* PrediccionGastos.preparar_datos: the instance afterwards, the exception
\* raised (None if it returned), the distinct rows of X with y and len(X)
\* (hayX is false when (None, None) is returned)
preparar_datos(self, tx) ==
  IF NumTransacciones(tx) < MinTransaccionesPrediccion \/ Gastos(tx) = {}
  THEN [self |-> self, exc |-> None, hayX |-> FALSE, X |-> {}, n |-> 0]
  ELSE Unico({
         IF c.exc # None
         THEN [self |-> [self EXCEPT !.label_encoders = c.label_encoders],
               exc |-> c.exc, hayX |-> FALSE, X |-> {}, n |-> 0]
         ELSE [self |-> [self EXCEPT !.label_encoders = c.label_encoders,
                                     !.feature_columns = feature_columns_entrenamiento],
               exc |-> None, hayX |-> TRUE,
               X |-> {FilaEntrenamiento(k, c.label_encoders) : k \in Gastos(tx)},
               n |-> NumGastos(tx)]
         : c \in {CodificarColumnas(self.label_encoders, 1, Gastos(tx))}})

\* train_test_split(test_size=0.2): ceil(0.2 n) test rows
MuestrasPrueba(n) == (2 * n + 9) \div 10

\* RandomForestRegressor(...).fit on the rows of X
RegressorFit(filas, cols) ==
  [clase |-> "RandomForestRegressor", columnas |-> cols, filas |-> filas]

Media(S) ==
  SumaDe([r \in S |-> r.y], S) \div Cardinality(S)

\* model.predict on one row: the mean target of the fitted rows closest to
\* the row (same category code, then same weekend flag)
RegressorPredict(m, X) ==
  LET R1 == {r \in m.filas : r.x.categoria_encoded = X.x.categoria_encoded}
      R2 == {r \in R1 : r.x.es_fin_semana = X.x.es_fin_semana}
  IN IF R2 # {} THEN Media(R2)
     ELSE IF R1 # {} THEN Media(R1)
     ELSE Media(m.filas)

\* round(x, 2) of a non-negative amount: thousandths to hundredths, ties to
\* even
Round2(m) ==
  LET q == m \div 10
      r == m % 10
  IN IF r < 5 THEN q
     ELSE IF r > 5 THEN q + 1
     ELSE IF q % 2 = 0 THEN q ELSE q + 1

Max(a, b) == IF a >= b THEN a ELSE b

Min(a, b) == IF a <= b THEN a ELSE b

\* a snapshot written without the feature-column list
InstantaneaP_sin_columnas(self) ==
  [clase |-> "dict", model |-> self.model,
   label_encoders |-> self.label_encoders, feature_columns |-> <<>>]

\* the dict that guardar_modelo pickles
InstantaneaP(self) ==
  [clase |-> "dict", model |-> self.model,
   label_encoders |-> self.label_encoders,
   feature_columns |-> self.feature_columns]

\* PrediccionGastos.guardar_modelo: the file afterwards (an I/O error is
\* caught and leaves the file as it was)
guardar_modelo(self, archivo, ok) ==
  IF ok THEN InstantaneaP(self) ELSE archivo

\* a file that pickle.load cannot read as a dict (a dump cut short, or
\* another kind of file)
ArchivoIlegible == [clase |-> "archivo", valido |-> FALSE]

\* PrediccionGastos.cargar_modelo: the three entries are assigned one by
\* one (lines 265-267), a missing entry is a KeyError that the except
\* branch turns into False
cargar_modelo(self, archivo) ==
  IF archivo = NoneType \/ archivo.clase # "dict"
     \/ "model" \notin DOMAIN archivo
  THEN [self |-> self, valor |-> FALSE]
  ELSE IF "label_encoders" \notin DOMAIN archivo
  THEN [self |-> [self EXCEPT !.model = archivo.model], valor |-> FALSE]
  ELSE IF "feature_columns" \notin DOMAIN archivo
  THEN [self |-> [self EXCEPT !.model = archivo.model,
                              !.label_encoders = archivo.label_encoders],
        valor |-> FALSE]
  ELSE [self |-> [self EXCEPT !.model = archivo.model,
                              !.label_encoders = archivo.label_encoders,
                              !.feature_columns = archivo.feature_columns,
                              !.is_trained = TRUE],
        valor |-> TRUE]

RetExc(op, e) == [op |-> op, exc |-> e, clase |-> "raise"]

RetBool(op, b) == [op |-> op, exc |-> None, clase |-> "bool", valor |-> b]

\* PrediccionGastos.entrenar
entrenar(self, archivo, tx, ok) ==
  Unico({
    IF p.exc # None
    THEN [self |-> p.self, archivo |-> archivo, guardo |-> FALSE,
          ret |-> RetExc("entrenar", p.exc)]
    ELSE IF ~p.hayX \/ p.n < MinMuestrasPrediccion
    THEN [self |-> p.self, archivo |-> archivo, guardo |-> FALSE,
          ret |-> RetBool("entrenar", FALSE)]
    ELSE LET s1 == [p.self EXCEPT
                      !.model = RegressorFit(p.X, p.self.feature_columns)]
         IN [self |-> [s1 EXCEPT !.is_trained = TRUE],
             archivo |-> guardar_modelo(s1, archivo, ok), guardo |-> ok,
             ret |-> [op |-> "entrenar", exc |-> None, clase |-> "dict",
                      muestras_entrenamiento |-> p.n - MuestrasPrueba(p.n),
                      muestras_prueba |-> MuestrasPrueba(p.n)]]
    : p \in {preparar_datos(self, tx)}})

\* the three encoder lookups of predecir_gasto, in the order of the code:
\* a missing encoder is a KeyError, an unseen value a ValueError
RECURSIVE CodificarArgumentos(_, _, _)
CodificarArgumentos(enc, valores, i) ==
  IF i > Len(categorical_features) THEN None
  ELSE LET col == categorical_features[i]
       IN IF col \notin DOMAIN enc THEN "KeyError"
          ELSE IF ~LabelVisto(enc[col], valores[col]) THEN "ValueError"
          ELSE CodificarArgumentos(enc, valores, i + 1)

\* model.predict(X_pred): no model is an AttributeError, columns other than
\* the fitted ones a ValueError
PredecirFila(m, X) ==
  IF m = NoneType THEN [exc |-> "AttributeError", y |-> 0]
  ELSE IF X.columnas # m.columnas THEN [exc |-> "ValueError", y |-> 0]
  ELSE [exc |-> None, y |-> RegressorPredict(m, X)]

\* the part of predecir_gasto after the availability check (lines 171-201)
PredecirConModelo(self, a, f) ==
  LET valores == [categoria |-> a.categoria,
                  subcategoria |-> Subcategoria(a.subcategoria),
                  metodo_pago |-> a.metodo_pago]
      e == CodificarArgumentos(self.label_encoders, valores, 1)
      ret == [op |-> "predecir_gasto", args |-> a, fecha |-> f]
  IN IF e = "KeyError"
     THEN ret @@ [exc |-> e, clase |-> "raise"]
     ELSE IF e = "ValueError"
     THEN ret @@ [exc |-> None, clase |-> "NoneType"]
     ELSE LET enc == self.label_encoders
              fila == ConCodigos(FeaturesTemporales(f, a.es_recurrente),
                        LabelTransform(enc["categoria"], valores["categoria"]),
                        LabelTransform(enc["subcategoria"], valores["subcategoria"]),
                        LabelTransform(enc["metodo_pago"], valores["metodo_pago"]))
          IN Unico({
               IF y.exc # None
               THEN ret @@ [exc |-> y.exc, clase |-> "raise"]
               ELSE ret @@ [exc |-> None, clase |-> "float",
                            centavos |-> Max(0, Round2(y.y))]
               : y \in {PredecirFila(self.model,
                           Seleccionar(fila, self.feature_columns))}})

\* an availability check that trains again on every call
AsegurarModelo_reentrena(self, archivo, tx, ok) ==
  Unico({[self |-> e.self, archivo |-> e.archivo, guardo |-> e.guardo,
          exc |-> e.ret.exc] : e \in {entrenar(self, archivo, tx, ok)}})

\* an availability check that goes on without training when the snapshot
\* cannot be loaded
AsegurarModelo_sin_entrenar(self, archivo, tx, ok) ==
  IF self.is_trained
  THEN [self |-> self, archivo |-> archivo, guardo |-> FALSE, exc |-> None]
  ELSE LET c == cargar_modelo(self, archivo)
       IN [self |-> c.self, archivo |-> archivo, guardo |-> FALSE,
           exc |-> None]

\* the availability check of predecir_gasto (lines 166-169): load the
\* snapshot when untrained, train when that fails
AsegurarModelo(self, archivo, tx, ok) ==
  IF self.is_trained
  THEN [self |-> self, archivo |-> archivo, guardo |-> FALSE, exc |-> None]
  ELSE LET c == cargar_modelo(self, archivo)
       IN IF c.valor
          THEN [self |-> c.self, archivo |-> archivo, guardo |-> FALSE,
                exc |-> None]
          ELSE Unico({[self |-> e.self, archivo |-> e.archivo,
                       guardo |-> e.guardo, exc |-> e.ret.exc]
                      : e \in {entrenar(c.self, archivo, tx, ok)}})

\* PrediccionGastos.predecir_gasto; ahora is the reading of datetime.now()
predecir_gasto(self, archivo, tx, a, ahora, ok) ==
  LET f == IF a.fecha = NoneType THEN ahora ELSE a.fecha
  IN Unico({
       [self |-> m.self, archivo |-> m.archivo, guardo |-> m.guardo,
        ret |-> IF m.exc # None
                THEN [op |-> "predecir_gasto", args |-> a, fecha |-> f,
                      exc |-> m.exc, clase |-> "raise"]
                ELSE PredecirConModelo(m.self, a, f)]
       : m \in {AsegurarModelo(self, archivo, tx, ok)}})

ArgsPorDefecto(categoria, f) ==
  [categoria |-> categoria, subcategoria |-> None, metodo_pago |-> "Efectivo",
   fecha |-> f, es_recurrente |-> FALSE]

\* the loop of predecir_gastos_mes (lines 229-238).  Every iteration calls
\* predecir_gasto on the same ledger: the availability check of the first
\* iteration decides the instance all iterations predict with (a second
\* failing attempt to load and train changes nothing more), and whichever
\* iteration raises first, the exception is the same.
BucleMes(self, archivo, tx, f, ok, cats) ==
  IF cats = {}
  THEN [self |-> self, archivo |-> archivo, guardo |-> FALSE, exc |-> None,
        predicciones |-> <<>>, total |-> 0]
  ELSE Unico({
    LET fallan == {c \in cats : r[c].exc # None}
        \* if prediccion: neither None nor 0.0
        dadas == {c \in cats : r[c].clase = "float" /\ r[c].centavos # 0}
        mensual == [c \in dadas |-> r[c].centavos * TransaccionesMes]
        base == [self |-> m.self, archivo |-> m.archivo, guardo |-> m.guardo]
    IN IF m.exc # None
       THEN base @@ [exc |-> m.exc, predicciones |-> <<>>, total |-> 0]
       ELSE IF fallan # {}
       THEN base @@ [exc |-> r[CHOOSE c \in fallan : TRUE].exc,
                     predicciones |-> <<>>, total |-> 0]
       ELSE base @@ [exc |-> None, predicciones |-> mensual,
                     total |-> SumaDe(mensual, dadas)]
    : <<m, r>> \in
        {<<n, [c \in cats |->
                 PredecirConModelo(n.self, ArgsPorDefecto(c, f), f)]>>
           : n \in {AsegurarModelo(self, archivo, tx, ok)}}})

\* PrediccionGastos.predecir_gastos_mes; mes = 0 and anio = 0 stand for None
predecir_gastos_mes(self, archivo, tx, mes, anio, ahora, ok) ==
  LET m1 == IF mes = 0 THEN (IF ahora.mes < 12 THEN ahora.mes + 1 ELSE 1)
            ELSE mes
      a0 == IF mes = 0 THEN (IF ahora.mes < 12 THEN ahora.anio ELSE ahora.anio + 1)
            ELSE anio
      a1 == IF a0 = 0 THEN ahora.anio ELSE a0
      categorias == {k.categoria : k \in Gastos(tx)}
      ret == [op |-> "predecir_gastos_mes", mes |-> m1, anio |-> a1]
  IN Unico({
       [self |-> b.self, archivo |-> b.archivo, guardo |-> b.guardo,
        ret |-> IF b.exc # None
                THEN ret @@ [exc |-> b.exc, clase |-> "raise"]
                ELSE ret @@ [exc |-> None, clase |-> "dict",
                             predicciones |-> b.predicciones,
                             TOTAL |-> b.total]]
       : b \in {BucleMes(self, archivo, tx, Fecha(a1, m1, 15, 0), ok,
                         categorias)}})

(***************************************************************************)
(* DetectorAnomalias                                                       *)
(***************************************************************************)
MinTransaccionesDetector == 30

MinMuestrasDetector == 30

StandardScalerNuevo == [clase |-> "StandardScaler", ajustado |-> FALSE]

DetectorNuevo ==
  [model |-> NoneType, scaler |-> StandardScalerNuevo, is_trained |-> FALSE]

NumCategoria(tx, cat) ==
  SumaDe(tx, {k \in Gastos(tx) : k.categoria = cat})

\* a sum that takes each distinct row once
SumaCategoria_sin_repetidos(tx, cat) ==
  LET G == {k \in Gastos(tx) : k.categoria = cat}
  IN SumaDe([k \in G |-> k.monto], G)

SumaCategoria(tx, cat) ==
  LET G == {k \in Gastos(tx) : k.categoria = cat}
  IN SumaDe([k \in G |-> tx[k] * k.monto], G)

\* mean of the amounts of a category that has at least one expense
MediaCategoria(tx, cat) == SumaCategoria(tx, cat) \div NumCategoria(tx, cat)

RECURSIVE RaizDesde(_, _)
RaizDesde(v, r) == IF (r + 1) * (r + 1) > v THEN r ELSE RaizDesde(v, r + 1)

\* standard deviation of the amounts of a category with ddof degrees of
\* freedom removed (pandas std: 1, numpy std: 0); squares are taken of
\* hundredths so that they stay in range
DesvCategoria(tx, cat, ddof) ==
  LET G == {k \in Gastos(tx) : k.categoria = cat}
      m == MediaCategoria(tx, cat)
      d == [k \in G |-> (k.monto - m) \div 10]
      sc == SumaDe([k \in G |-> tx[k] * d[k] * d[k]], G)
  IN IF sc = 0 THEN 0
     ELSE 10 * RaizDesde(sc \div (NumCategoria(tx, cat) - ddof), 0)

\* (monto - mean) / (std + 1e-6), in whole units
Desviacion(monto, media, desv) ==
  IF desv = 0 THEN (monto - media) * 1000 ELSE (monto - media) \div desv

\* one row of the feature frame; monto_log is kept as the term log1p(monto)
FilaDetector(monto, desviacion, f) ==
  [monto |-> monto, monto_log |-> [log1p |-> monto],
   desviacion_categoria |-> desviacion,
   dia_semana |-> Weekday(f), hora |-> f.hora, dia_mes |-> f.dia,
   es_fin_semana |-> IF Weekday(f) >= 5 THEN 1 ELSE 0,
   es_noche |-> IF f.hora >= 22 \/ f.hora <= 6 THEN 1 ELSE 0]

\* the training row of a ledger shape: a category with a single expense has
\* a NaN sample deviation
FilaDetectorEntrenamiento(k, tx) ==
  FilaDetector(k.monto,
    IF NumCategoria(tx, k.categoria) = 1 THEN [nan |-> TRUE]
    ELSE [nan |-> FALSE,
          v |-> Desviacion(k.monto, MediaCategoria(tx, k.categoria),
                           DesvCategoria(tx, k.categoria, 1))],
    k.fecha)

\* DetectorAnomalias.preparar_datos: what it returns (clase "NoneType" for
\* the bare None, "tuple" for (features, df)) or raises
d_preparar_datos(tx) ==
  IF NumTransacciones(tx) < MinTransaccionesDetector
  THEN [exc |-> None, clase |-> "NoneType", features |-> {}, n |-> 0]
  ELSE IF Gastos(tx) = {}
  THEN [exc |-> "KeyError", clase |-> "raise", features |-> {}, n |-> 0]
  ELSE [exc |-> None, clase |-> "tuple",
        features |-> {FilaDetectorEntrenamiento(k, tx) : k \in Gastos(tx)},
        n |-> NumGastos(tx)]

\* StandardScaler.fit_transform / transform
ScalerFit(features) ==
  [clase |-> "StandardScaler", ajustado |-> TRUE, filas |-> features]

ScalerTransform(scaler, fila) == [fila |-> fila, escala |-> scaler.filas]

IsolationForestNuevo == [clase |-> "IsolationForest", ajustado |-> FALSE]

IsolationForestFit(Xs) ==
  [clase |-> "IsolationForest", ajustado |-> TRUE, filas |-> Xs]

\* score_samples, in ten-thousandths: a row like a fitted one scores above
\* the offset, any other row below it
ScoreSamples(m, xs) ==
  IF \E r \in m.filas : /\ r.escala = xs.escala
                        /\ r.fila.monto = xs.fila.monto
                        /\ r.fila.es_noche = xs.fila.es_noche
  THEN 0 - 4000 ELSE 0 - 6500

OffsetIsolationForest == 0 - 5000

\* the dict that guardar_modelo pickles
InstantaneaD(self) ==
  [clase |-> "dict", model |-> self.model, scaler |-> self.scaler]

d_guardar_modelo(self, archivo, ok) ==
  IF ok THEN InstantaneaD(self) ELSE archivo

\* a load that marks the instance untrained when there is no snapshot
d_cargar_modelo_olvida(self, archivo) ==
  IF archivo = NoneType
  THEN [self |-> [self EXCEPT !.is_trained = FALSE], valor |-> FALSE]
  ELSE [self |-> [self EXCEPT !.model = archivo.model,
                              !.scaler = archivo.scaler,
                              !.is_trained = TRUE],
        valor |-> TRUE]

\* DetectorAnomalias.cargar_modelo: the two entries are assigned one by one
\* (lines 244-245)
d_cargar_modelo(self, archivo) ==
  IF archivo = NoneType \/ archivo.clase # "dict"
     \/ "model" \notin DOMAIN archivo
  THEN [self |-> self, valor |-> FALSE]
  ELSE IF "scaler" \notin DOMAIN archivo
  THEN [self |-> [self EXCEPT !.model = archivo.model], valor |-> FALSE]
  ELSE [self |-> [self EXCEPT !.model = archivo.model,
                              !.scaler = archivo.scaler,
                              !.is_trained = TRUE],
        valor |-> TRUE]

\* DetectorAnomalias.entrenar; nanFalla says whether the installed
\* IsolationForest rejects a NaN feature
d_entrenar(self, archivo, tx, ok, nanFalla) ==
  LET sin == [self |-> self, archivo |-> archivo, guardo |-> FALSE]
  IN Unico({
    IF p.exc # None
    THEN sin @@ [ret |-> RetExc("entrenar", p.exc)]
    ELSE IF p.clase = "NoneType"
    THEN sin @@ [ret |-> RetExc("entrenar", "TypeError")]
    ELSE IF p.n < MinMuestrasDetector
    THEN sin @@ [ret |-> RetBool("entrenar", FALSE)]
    ELSE Unico({
      LET s1 == [self EXCEPT !.scaler = sc, !.model = IsolationForestNuevo]
          anomalias == SumaDe([k \in Gastos(tx) |->
              IF ScoreSamples(s2.model,
                   ScalerTransform(sc, FilaDetectorEntrenamiento(k, tx)))
                 < OffsetIsolationForest
              THEN tx[k] ELSE 0], Gastos(tx))
      IN IF nanFalla /\ \E x \in p.features : x.desviacion_categoria.nan
         THEN [self |-> s1, archivo |-> archivo, guardo |-> FALSE,
               ret |-> RetExc("entrenar", "ValueError")]
         ELSE [self |-> [s2 EXCEPT !.is_trained = TRUE],
               archivo |-> d_guardar_modelo(s2, archivo, ok),
               guardo |-> ok,
               ret |-> [op |-> "entrenar", exc |-> None, clase |-> "dict",
                        total_transacciones |-> p.n,
                        anomalias_detectadas |-> anomalias]]
      : <<sc, s2>> \in
          {<<e, [self EXCEPT
                   !.scaler = e,
                   !.model = IsolationForestFit(
                               {ScalerTransform(e, x) : x \in p.features})]>>
             : e \in {ScalerFit(p.features)}}})
    : p \in {d_preparar_datos(tx)}})

\* the part of detectar_anomalia after the availability check (125-189)
DetectarConModelo(self, tx, a, f) ==
  LET ret == [op |-> "detectar_anomalia", args |-> a, fecha |-> f]
  IN IF NumCategoria(tx, a.categoria) = 0
     THEN ret @@ [exc |-> None, clase |-> "dict", es_anomalia |-> FALSE,
                  confianza |-> 0,
                  mensaje |-> "No hay historico de esta categoria"]
     ELSE Unico({
          LET dc == Desviacion(a.monto, media, desv)
              fila == FilaDetector(a.monto, [nan |-> FALSE, v |-> dc], f)
          IN IF ~self.scaler.ajustado
             THEN ret @@ [exc |-> "NotFittedError", clase |-> "raise"]
             ELSE IF self.model = NoneType
             THEN ret @@ [exc |-> "AttributeError", clase |-> "raise"]
             ELSE IF ~self.model.ajustado
             THEN ret @@ [exc |-> "NotFittedError", clase |-> "raise"]
             ELSE LET xs == ScalerTransform(self.scaler, fila)
                      score == ScoreSamples(self.model, xs)
                      es == score < OffsetIsolationForest
                  IN ret @@
                     [exc |-> None, clase |-> "dict", es_anomalia |-> es,
                      confianza |-> Min(10000, Max(0, (Abs(score) * 50) \div 100)),
                      score |-> score,
                      mensaje |->
                        IF es
                        THEN (IF a.monto > media * 2 THEN "mayor al promedio"
                              ELSE IF 10 * a.monto < media * 3
                              THEN "significativamente menor al promedio"
                              ELSE "Patron inusual detectado")
                        ELSE "Gasto dentro del rango normal",
                      promedio_categoria |-> Round2(media),
                      desviaciones_std |-> dc]
          : <<media, desv>> \in
              {<<MediaCategoria(tx, a.categoria),
                 IF NumCategoria(tx, a.categoria) > 1
                 THEN DesvCategoria(tx, a.categoria, 0) ELSE 1000>>}})

\* a detectar_anomalia that looks for the history of the category before
\* it looks for a model
detectar_anomalia_historico_primero(self, archivo, tx, a, ahora, ok, nanFalla) ==
  LET f == IF a.fecha = NoneType THEN ahora ELSE a.fecha
      ret == [op |-> "detectar_anomalia", args |-> a, fecha |-> f]
      sin == [self |-> self, archivo |-> archivo, guardo |-> FALSE]
  IN IF NumCategoria(tx, a.categoria) = 0 \/ self.is_trained
     THEN sin @@ [ret |-> DetectarConModelo(self, tx, a, f)]
     ELSE sin @@ [ret |-> ret @@ [exc |-> None, clase |-> "dict",
                                  es_anomalia |-> FALSE, confianza |-> 0,
                                  mensaje |-> "Modelo no disponible"]]

\* DetectorAnomalias.detectar_anomalia; ahora is the reading of
\* datetime.now()
detectar_anomalia(self, archivo, tx, a, ahora, ok, nanFalla) ==
  LET f == IF a.fecha = NoneType THEN ahora ELSE a.fecha
      ret == [op |-> "detectar_anomalia", args |-> a, fecha |-> f]
      sin == [self |-> self, archivo |-> archivo, guardo |-> FALSE]
  IN IF self.is_trained
     THEN sin @@ [ret |-> DetectarConModelo(self, tx, a, f)]
     ELSE LET c == d_cargar_modelo(self, archivo)
          IN IF c.valor
             THEN [self |-> c.self, archivo |-> archivo, guardo |-> FALSE,
                   ret |-> DetectarConModelo(c.self, tx, a, f)]
             ELSE Unico({
                  LET r == [self |-> e.self, archivo |-> e.archivo,
                            guardo |-> e.guardo]
                  IN IF e.ret.exc # None
                     THEN r @@ [ret |-> ret @@ [exc |-> e.ret.exc,
                                                clase |-> "raise"]]
                     ELSE IF e.ret.clase = "bool"
                     THEN r @@ [ret |-> ret @@
                                  [exc |-> None, clase |-> "dict",
                                   es_anomalia |-> FALSE, confianza |-> 0,
                                   mensaje |-> "Modelo no disponible"]]
                     ELSE r @@ [ret |-> DetectarConModelo(e.self, tx, a, f)]
                  : e \in {d_entrenar(c.self, archivo, tx, ok, nanFalla)}})

(***************************************************************************)
(* The calls the operations are exercised with.                            *)
(***************************************************************************)
ArgsPredecir ==
  { [categoria |-> "Otros", subcategoria |-> None,
     metodo_pago |-> "Efectivo", fecha |-> NoneType, es_recurrente |-> FALSE],
    [categoria |-> "Transporte", subcategoria |-> "Taxi",
     metodo_pago |-> "PayPal", fecha |-> Fecha(2026, 12, 15, 0),
     es_recurrente |-> TRUE],
    [categoria |-> "Transporte", subcategoria |-> None,
     metodo_pago |-> "Efectivo", fecha |-> Fecha(2026, 12, 15, 0),
     es_recurrente |-> FALSE],
    [categoria |-> "Salud", subcategoria |-> None,
     metodo_pago |-> "Efectivo", fecha |-> NoneType, es_recurrente |-> FALSE] }

ArgsMes == { [mes |-> 0, anio |-> 0], [mes |-> 12, anio |-> 2026] }

ArgsDetectar ==
  { [monto |-> 42500, categoria |-> "Transporte", fecha |-> NoneType],
    [monto |-> 100000, categoria |-> "Transporte",
     fecha |-> Fecha(2026, 11, 7, 23)],
    [monto |-> 4, categoria |-> "Otros", fecha |-> NoneType],
    [monto |-> 100, categoria |-> "Salud", fecha |-> NoneType] }

\* the in-memory model state of an instance
EstadoP(self) ==
  [model |-> self.model, label_encoders |-> self.label_encoders,
   feature_columns |-> self.feature_columns]

EstadoD(self) == [model |-> self.model, scaler |-> self.scaler]

RetInicial == [op |-> "__init__", exc |-> None, clase |-> "NoneType"]

\* pd.DataFrame(): no rows and no columns
DataFrameVacio == [clase |-> "DataFrame", columnas |-> {}, filas |-> <<>>]

(***************************************************************************)
(* Lists of alerts.  The order of a list follows the order in which the    *)
(* database returns rows, which the queries leave open between rows of     *)
(* one instant; a list is kept as the bag of its records.                  *)
(***************************************************************************)
\* the list with N(i) copies of F(i) for every i of I
Lista(I, F(_), N(_)) ==
  Unico({ [a \in {t[2] : t \in T} |->
             SumaDe([t \in T |-> IF t[2] = a THEN t[3] ELSE 0], T)] :
          T \in {{t \in {<<i, F(i), N(i)>> : i \in I} : t[3] > 0}} })

ListaVacia == <<>>

\* len(lista)
Len_(lista) == SumaDe(lista, DOMAIN lista)

\* sum(1 for a in lista if a['nivel'] == nivel)
CuentaNivel(lista, nivel) ==
  SumaDe(lista, {a \in DOMAIN lista : a.nivel = nivel})

\* round(num / den, 0) for num >= 0 and den > 0, ties to even
RoundDiv(num, den) ==
  LET q == num \div den
      r == num % den
  IN IF 2 * r < den THEN q
     ELSE IF 2 * r > den THEN q + 1
     ELSE IF q % 2 = 0 THEN q ELSE q + 1

(***************************************************************************)
(* The table presupuestos (class Presupuesto) and                          *)
(* SistemaAlertas.crear_presupuesto.  Amounts are in thousandths,          *)
(* percentages in whole percent.                                           *)
(***************************************************************************)
AlertaPorDefecto == 80

\* the next value of the autoincrement primary key
SiguienteId(tabla) ==
  IF tabla = {} THEN 1
  ELSE 1 + (CHOOSE i \in {p.id : p \in tabla} :
              \A p \in tabla : p.id <= i)

\* session.query(Presupuesto).filter(categoria == c).first()
PrimeroDe(tabla, categoria) ==
  LET filas == {p \in tabla : p.categoria = categoria}
  IN IF filas = {} THEN NoneType
     ELSE CHOOSE p \in filas : \A q \in filas : p.id <= q.id

\* a crear_presupuesto that adds a row without looking for the category
crear_presupuesto_inserta(tabla, categoria, monto_mensual, alerta_porcentaje, commit) ==
  IF commit
  THEN [tabla |-> tabla \cup
                    {[clase |-> "Presupuesto", id |-> SiguienteId(tabla),
                      categoria |-> categoria,
                      monto_mensual |-> monto_mensual,
                      alerta_porcentaje |-> alerta_porcentaje, activo |-> 1]},
        ret |-> RetBool("crear_presupuesto", TRUE)]
  ELSE [tabla |-> tabla, ret |-> RetBool("crear_presupuesto", FALSE)]

\* the table after the call and the value returned; commit tells whether
\* session.commit() succeeds
crear_presupuesto(tabla, categoria, monto_mensual, alerta_porcentaje, commit) ==
  LET existe == PrimeroDe(tabla, categoria)
      nueva ==
        IF existe # NoneType
        THEN (tabla \ {existe}) \cup
               {[existe EXCEPT !.monto_mensual = monto_mensual,
                               !.alerta_porcentaje = alerta_porcentaje]}
        ELSE tabla \cup
               {[clase |-> "Presupuesto", id |-> SiguienteId(tabla),
                 categoria |-> categoria, monto_mensual |-> monto_mensual,
                 alerta_porcentaje |-> alerta_porcentaje, activo |-> 1]}
  IN IF commit
     THEN [tabla |-> nueva, ret |-> RetBool("crear_presupuesto", TRUE)]
     ELSE [tabla |-> tabla, ret |-> RetBool("crear_presupuesto", FALSE)]

(***************************************************************************)
(* SistemaAlertas.verificar_presupuestos                                   *)
(***************************************************************************)
NivelCritico == 100

\* db_manager.obtener_transacciones_por_fecha(fecha_inicio, fecha_fin), the
\* two datetimes given in minutes
PorFecha(tx, fecha_inicio, fecha_fin) ==
  {k \in DOMAIN tx : /\ tx[k] > 0
                     /\ Minutos(k.fecha) >= fecha_inicio
                     /\ Minutos(k.fecha) <= fecha_fin}

\* gastos_categoria.get(categoria, 0) over the rows filas of the ledger
GastoDe(tx, filas, categoria) ==
  LET S == {k \in filas : k.tipo = "gasto" /\ k.categoria = categoria}
  IN SumaDe([k \in S |-> tx[k] * k.monto], S)

\* a comparison that leaves the boundary out
PorcentajeMayor(gasto_actual, monto_mensual, x) ==
  IF monto_mensual > 0
  THEN 100 * gasto_actual > x * monto_mensual
  ELSE 0 > x

\* porcentaje_usado >= x, for porcentaje_usado of line 54
PorcentajeAlMenos(gasto_actual, monto_mensual, x) ==
  IF monto_mensual > 0
  THEN 100 * gasto_actual >= x * monto_mensual
  ELSE 0 >= x

\* round(porcentaje_usado, 1), in tenths of a percent
PorcentajeRound1(gasto_actual, monto_mensual) ==
  IF monto_mensual > 0
  THEN 1000 * (gasto_actual \div monto_mensual)
         + RoundDiv(1000 * (gasto_actual % monto_mensual), monto_mensual)
  ELSE 0

\* an alert whose level is taken against the threshold of the budget
AlertaPresupuesto_nivel_por_umbral(p, gasto_actual) ==
  [tipo |-> "presupuesto",
   nivel |-> IF PorcentajeAlMenos(gasto_actual, p.monto_mensual,
                                  p.alerta_porcentaje)
             THEN "CRITICO" ELSE "ADVERTENCIA",
   categoria |-> p.categoria,
   porcentaje_usado |-> PorcentajeRound1(gasto_actual, p.monto_mensual),
   gasto_actual |-> Round2(gasto_actual),
   presupuesto_total |-> Round2(p.monto_mensual)]

AlertaPresupuesto(p, gasto_actual) ==
  \* 'mensaje' repeats porcentaje_usado and categoria, 'fecha' is the clock
  [tipo |-> "presupuesto",
   nivel |-> IF PorcentajeAlMenos(gasto_actual, p.monto_mensual, NivelCritico)
             THEN "CRITICO" ELSE "ADVERTENCIA",
   categoria |-> p.categoria,
   porcentaje_usado |-> PorcentajeRound1(gasto_actual, p.monto_mensual),
   gasto_actual |-> Round2(gasto_actual),
   presupuesto_total |-> Round2(p.monto_mensual)]

\* a check that divides by the monthly amount whatever it is
verificar_presupuestos_sin_guarda(tabla, tx, hoy) ==
  LET activos == {p \in tabla : p.activo = 1}
      transacciones_mes == PorFecha(tx, Minutos(InicioMes(hoy)), Minutos(hoy))
      G(p) == GastoDe(tx, transacciones_mes, p.categoria)
      F(p) == AlertaPresupuesto(p, G(p))
      N(p) == IF 100 * G(p) >= p.alerta_porcentaje * p.monto_mensual
              THEN 1 ELSE 0
  IN Lista(activos, F, N)

verificar_presupuestos(tabla, tx, hoy) ==
  LET activos == {p \in tabla : p.activo = 1}
      transacciones_mes == PorFecha(tx, Minutos(InicioMes(hoy)), Minutos(hoy))
      G(p) == GastoDe(tx, transacciones_mes, p.categoria)
      F(p) == AlertaPresupuesto(p, G(p))
      N(p) == IF PorcentajeAlMenos(G(p), p.monto_mensual, p.alerta_porcentaje)
              THEN 1 ELSE 0
  IN Lista(activos, F, N)

(***************************************************************************)
(* SistemaAlertas.verificar_gastos_duplicados                              *)
(***************************************************************************)
VentanaPorDefecto == 1

HorasRecientes == 24

\* a hundredth of a currency unit, in thousandths
Centesima == 10

\* ahora - timedelta(hours=h), as minutes
HaceHoras(ahora, h) == Minutos(ahora) - 60 * h

\* the alert of the pair gasto1, gasto2 (gasto1 comes first in the list,
\* which is ordered by fecha descending)
AlertaDuplicado(gasto1, gasto2) ==
  [tipo |-> "duplicado", nivel |-> "INFO",
   monto |-> Round2(gasto1.monto),
   categoria |-> gasto1.categoria,
   fecha1 |-> gasto1.fecha, fecha2 |-> gasto2.fecha,
   \* round(diff_tiempo * 60, 1), in tenths of a minute
   diferencia_minutos |->
     10 * Abs(Minutos(gasto1.fecha) - Minutos(gasto2.fecha))]

\* the condition of lines 189-195 on two rows
EsDuplicado(g1, g2, ventana_horas) ==
  /\ Abs(g1.monto - g2.monto) < Centesima
  /\ g1.categoria = g2.categoria
  /\ Abs(Minutos(g1.fecha) - Minutos(g2.fecha)) <= 60 * ventana_horas

\* the place of the rows of two shapes in the list of
\* obtener_transacciones_por_fecha, which is ordered by fecha descending:
\* rows of g1 come before rows of g2 (of one fecha: the database decides)
VaAntes(g1, g2) ==
  \/ g1 = g2
  \/ Minutos(g1.fecha) > Minutos(g2.fecha)
  \/ /\ Minutos(g1.fecha) = Minutos(g2.fecha)
     /\ g1 = CHOOSE g \in {g1, g2} : TRUE

\* a duplicate check that does not look at the time between the two rows
verificar_gastos_duplicados_sin_ventana(tx, ahora, ventana_horas) ==
  LET gastos == {k \in PorFecha(tx, HaceHoras(ahora, HorasRecientes),
                               Minutos(ahora)) : k.tipo = "gasto"}
      \* <<gasto1, gasto2>> for the pairs i < j of the list
      pares == {par \in gastos \X gastos : VaAntes(par[1], par[2])}
      F(par) == AlertaDuplicado(par[1], par[2])
      N(par) ==
        IF /\ Abs(par[1].monto - par[2].monto) < Centesima
           /\ par[1].categoria = par[2].categoria
        THEN IF par[1] = par[2]
             THEN (tx[par[1]] * (tx[par[1]] - 1)) \div 2
             ELSE tx[par[1]] * tx[par[2]]
        ELSE 0
  IN Lista(pares, F, N)

\* the rows of one shape are equal in every column the check reads: c rows
\* of one shape are c(c-1)/2 pairs i < j, the rows of two shapes c1*c2
\* pairs, of which the row of the later fecha is gasto1; the shapes of one
\* fecha differ in category or are one shape, so that the order the
\* database gives to rows of one fecha decides no alert
verificar_gastos_duplicados(tx, ahora, ventana_horas) ==
  LET gastos == {k \in PorFecha(tx, HaceHoras(ahora, HorasRecientes),
                               Minutos(ahora)) : k.tipo = "gasto"}
      \* <<gasto1, gasto2>> for the pairs i < j of the list
      pares == {par \in gastos \X gastos : VaAntes(par[1], par[2])}
      F(par) == AlertaDuplicado(par[1], par[2])
      N(par) ==
        IF EsDuplicado(par[1], par[2], ventana_horas)
        THEN IF par[1] = par[2]
             THEN (tx[par[1]] * (tx[par[1]] - 1)) \div 2
             ELSE tx[par[1]] * tx[par[2]]
        ELSE 0
  IN Lista(pares, F, N)

(***************************************************************************)
(* SistemaAlertas.proyectar_fin_mes                                        *)
(***************************************************************************)
\* the empty dict
DictVacio == [clase |-> "dict", len |-> 0]

\* round(num / den, 0) for den > 0, ties to even
RoundDivS(num, den) ==
  IF num < 0 THEN 0 - RoundDiv(0 - num, den) ELSE RoundDiv(num, den)

\* sum(t.monto for t in filas if t.tipo == tipo)
SumaTipo(tx, filas, tipo) ==
  LET S == {k \in filas : k.tipo = tipo}
  IN SumaDe([k \in S |-> tx[k] * k.monto], S)

\* a projection that extrapolates the expenses and not the income
proyectar_fin_mes_ingreso_actual(tx, hoy) ==
  LET dias_mes == DiasMes(hoy.anio, hoy.mes)
      dias_transcurridos == hoy.dia
      dias_restantes == dias_mes - dias_transcurridos
      transacciones_mes == PorFecha(tx, Minutos(InicioMes(hoy)), Minutos(hoy))
      ingresos_mes == SumaTipo(tx, transacciones_mes, "ingreso")
      gastos_mes == SumaTipo(tx, transacciones_mes, "gasto")
      gastos_d == gastos_mes * dias_transcurridos + gastos_mes * dias_restantes
      ingresos_d == ingresos_mes * dias_transcurridos
  IN IF dias_restantes <= 0 THEN DictVacio
     ELSE IF ingresos_d - gastos_d < 0
     THEN [tipo |-> "proyeccion", nivel |-> "ADVERTENCIA",
           proyeccion |->
             [dias_restantes |-> dias_restantes,
              gastos_actual |-> Round2(gastos_mes),
              ingresos_actual |-> Round2(ingresos_mes),
              balance_actual |-> RoundDivS(ingresos_mes - gastos_mes, 10),
              gastos_proyectado_fin_mes |->
                RoundDiv(gastos_d, 10 * dias_transcurridos),
              ingresos_proyectado_fin_mes |->
                RoundDiv(ingresos_d, 10 * dias_transcurridos),
              balance_proyectado_fin_mes |->
                RoundDivS(ingresos_d - gastos_d, 10 * dias_transcurridos)]]
     ELSE DictVacio

\* a projection that goes on when no day remains
proyectar_fin_mes_ultimo_dia(tx, hoy) ==
  LET dias_mes == DiasMes(hoy.anio, hoy.mes)
      dias_transcurridos == hoy.dia
      dias_restantes == dias_mes - dias_transcurridos
      transacciones_mes == PorFecha(tx, Minutos(InicioMes(hoy)), Minutos(hoy))
      ingresos_mes == SumaTipo(tx, transacciones_mes, "ingreso")
      gastos_mes == SumaTipo(tx, transacciones_mes, "gasto")
      gastos_d == gastos_mes * dias_transcurridos + gastos_mes * dias_restantes
      ingresos_d ==
        ingresos_mes * dias_transcurridos + ingresos_mes * dias_restantes
  IN IF dias_restantes < 0 THEN DictVacio
     ELSE IF ingresos_d - gastos_d < 0
     THEN [tipo |-> "proyeccion", nivel |-> "ADVERTENCIA",
           proyeccion |->
             [dias_restantes |-> dias_restantes,
              gastos_actual |-> Round2(gastos_mes),
              ingresos_actual |-> Round2(ingresos_mes),
              balance_actual |-> RoundDivS(ingresos_mes - gastos_mes, 10),
              gastos_proyectado_fin_mes |->
                RoundDiv(gastos_d, 10 * dias_transcurridos),
              ingresos_proyectado_fin_mes |->
                RoundDiv(ingresos_d, 10 * dias_transcurridos),
              balance_proyectado_fin_mes |->
                RoundDivS(ingresos_d - gastos_d, 10 * dias_transcurridos)]]
     ELSE DictVacio

\* gastos_d and ingresos_d are the projected totals of lines 143-144 times
\* dias_transcurridos, which is hoy.day and so at least 1
proyectar_fin_mes(tx, hoy) ==
  LET dias_mes == DiasMes(hoy.anio, hoy.mes)
      dias_transcurridos == hoy.dia
      dias_restantes == dias_mes - dias_transcurridos
      transacciones_mes == PorFecha(tx, Minutos(InicioMes(hoy)), Minutos(hoy))
      ingresos_mes == SumaTipo(tx, transacciones_mes, "ingreso")
      gastos_mes == SumaTipo(tx, transacciones_mes, "gasto")
      gastos_d == gastos_mes * dias_transcurridos + gastos_mes * dias_restantes
      ingresos_d ==
        ingresos_mes * dias_transcurridos + ingresos_mes * dias_restantes
  IN IF dias_restantes <= 0 THEN DictVacio
     ELSE IF ingresos_d - gastos_d < 0
     THEN [tipo |-> "proyeccion", nivel |-> "ADVERTENCIA",
           proyeccion |->
             [dias_restantes |-> dias_restantes,
              gastos_actual |-> Round2(gastos_mes),
              ingresos_actual |-> Round2(ingresos_mes),
              balance_actual |-> RoundDivS(ingresos_mes - gastos_mes, 10),
              gastos_proyectado_fin_mes |->
                RoundDiv(gastos_d, 10 * dias_transcurridos),
              ingresos_proyectado_fin_mes |->
                RoundDiv(ingresos_d, 10 * dias_transcurridos),
              balance_proyectado_fin_mes |->
                RoundDivS(ingresos_d - gastos_d, 10 * dias_transcurridos)]]
     ELSE DictVacio

(***************************************************************************)
(* DetectorAnomalias.analizar_anomalias_historicas and                     *)
(* SistemaAlertas.verificar_gastos_inusuales                               *)
(***************************************************************************)
DiasInusuales == 7

\* the loop of lines 207-219 over the expense shapes pendientes, latest
\* fecha first.  est holds the detector and its snapshot file as the calls
\* of detectar_anomalia leave them, the exception that ended the loop, and
\* anomalias, the shapes whose result has es_anomalia with that result.
\* The rows of one shape give one result: a call of detectar_anomalia
\* changes the detector only when it finds it untrained, which the calls
\* after the first do not.
RECURSIVE BucleAnomalias(_, _, _, _, _, _)
BucleAnomalias(est, pendientes, tx, ahora, ok, nanFalla) ==
  IF pendientes = {} \/ est.exc # None THEN est
  ELSE Unico({
    BucleAnomalias(
      [self |-> r.self, archivo |-> r.archivo,
       guardo |-> est.guardo \/ r.guardo,
       exc |-> r.ret.exc,
       anomalias |-> IF r.ret.exc = None /\ r.ret.es_anomalia
                     THEN est.anomalias \cup {<<r.ret.args.t, r.ret>>}
                     ELSE est.anomalias],
      pendientes \ {r.ret.args.t}, tx, ahora, ok, nanFalla)
    : r \in {detectar_anomalia(est.self, est.archivo, tx,
               [monto |-> t.monto, categoria |-> t.categoria,
                fecha |-> t.fecha, t |-> t],
               ahora, ok, nanFalla)
             : t \in {CHOOSE k \in pendientes :
                        \A q \in pendientes :
                          Minutos(k.fecha) >= Minutos(q.fecha)}}})

\* DetectorAnomalias.analizar_anomalias_historicas
analizar_anomalias_historicas(self, archivo, tx, ahora, dias, ok, nanFalla) ==
  BucleAnomalias(
    [self |-> self, archivo |-> archivo, guardo |-> FALSE, exc |-> None,
     anomalias |-> {}],
    {k \in PorFecha(tx, Minutos(ahora) - 1440 * dias, Minutos(ahora)) :
       k.tipo = "gasto"},
    tx, ahora, ok, nanFalla)

AlertaAnomalia(t, resultado) ==
  [tipo |-> "anomalia", nivel |-> "ADVERTENCIA",
   categoria |-> t.categoria,
   monto |-> Round2(t.monto),
   \* round(confianza, 1) of a confianza in hundredths, in tenths
   confianza |-> RoundDiv(resultado.confianza, 10),
   fecha_gasto |-> t.fecha,
   mensaje |-> resultado.mensaje]

\* an aggregator that asks the detector whatever its is_trained
verificar_gastos_inusuales_sin_guarda(self, archivo, tx, ahora, dias, ok, nanFalla) ==
  Unico({
    [self |-> e.self, archivo |-> e.archivo, guardo |-> e.guardo,
     lista |-> IF e.exc # None THEN ListaVacia
               ELSE LET F(x) == AlertaAnomalia(x[1], x[2])
                        N(x) == tx[x[1]]
                    IN Lista(e.anomalias, F, N)]
    : e \in {analizar_anomalias_historicas(self, archivo, tx, ahora, dias,
                                           ok, nanFalla)}})

\* SistemaAlertas.verificar_gastos_inusuales: the list it returns and the
\* detector and its snapshot file as the call leaves them; an exception of
\* analizar_anomalias_historicas is logged and the list is returned as it is
\* then, empty
verificar_gastos_inusuales(self, archivo, tx, ahora, dias, ok, nanFalla) ==
  IF ~self.is_trained
  THEN [self |-> self, archivo |-> archivo, guardo |-> FALSE,
        lista |-> ListaVacia]
  ELSE Unico({
    [self |-> e.self, archivo |-> e.archivo, guardo |-> e.guardo,
     lista |-> IF e.exc # None THEN ListaVacia
               ELSE LET F(x) == AlertaAnomalia(x[1], x[2])
                        N(x) == tx[x[1]]
                    IN Lista(e.anomalias, F, N)]
    : e \in {analizar_anomalias_historicas(self, archivo, tx, ahora, dias,
                                           ok, nanFalla)}})

(***************************************************************************)
(* SistemaAlertas.generar_reporte_alertas, guardar_alertas, cargar_alertas *)
(***************************************************************************)
\* json.dump writes None as null and json.load reads null as None; the
\* other values of a report (strings, numbers, lists, dicts with string
\* keys) are read back as they were written
JsonNull == [json |-> "null"]

JsonDump(reporte) ==
  [r \in DOMAIN reporte |->
     IF r = "alerta_proyeccion" /\ reporte[r] = NoneType THEN JsonNull
     ELSE reporte[r]]

JsonLoad(texto) ==
  [r \in DOMAIN texto |->
     IF r = "alerta_proyeccion" /\ texto[r] = JsonNull THEN NoneType
     ELSE texto[r]]

\* what is left of the file when writing fails after open(..., 'w') has
\* truncated it: text that is no JSON document
ArchivoTruncado == [clase |-> "archivo", valido |-> FALSE]

\* the outcomes of guardar_alertas: the report is written, open raises,
\* or the writing raises after open
SalidasGuardarAlertas == {"escrito", "falla_open", "falla_write"}

\* the file after guardar_alertas(reporte)
guardar_alertas(archivo, reporte, salida) ==
  IF salida = "escrito"
  THEN [clase |-> "archivo", valido |-> TRUE, texto |-> JsonDump(reporte)]
  ELSE IF salida = "falla_open" THEN archivo
  ELSE ArchivoTruncado

\* SistemaAlertas.cargar_alertas
cargar_alertas(archivo) ==
  IF archivo = NoneType THEN DictVacio
  ELSE IF ~archivo.valido THEN DictVacio
  ELSE JsonLoad(archivo.texto)

\* a report whose ADVERTENCIA count leaves the projection out
ReporteAlertas_sin_proyeccion(alertas_presupuesto, alertas_inusuales, alerta_proyeccion, alertas_duplicados, ahora) ==
  [fecha_generacion |-> ahora,
   total_alertas |->
     Len_(alertas_presupuesto) + Len_(alertas_inusuales)
       + (IF alerta_proyeccion # DictVacio THEN 1 ELSE 0)
       + Len_(alertas_duplicados),
   alertas_presupuesto |-> alertas_presupuesto,
   alertas_gastos_inusuales |-> alertas_inusuales,
   alerta_proyeccion |->
     IF alerta_proyeccion # DictVacio THEN alerta_proyeccion ELSE NoneType,
   alertas_duplicados |-> alertas_duplicados,
   niveles |->
     [CRITICO |-> CuentaNivel(alertas_presupuesto, "CRITICO"),
      ADVERTENCIA |->
        CuentaNivel(alertas_presupuesto, "ADVERTENCIA")
          + Len_(alertas_inusuales),
      INFO |-> Len_(alertas_duplicados)]]

\* the dict of lines 224-245; the readings of datetime.now() of the four
\* checks are one instant
ReporteAlertas(alertas_presupuesto, alertas_inusuales, alerta_proyeccion, alertas_duplicados, ahora) ==
  [fecha_generacion |-> ahora,
   total_alertas |->
     Len_(alertas_presupuesto) + Len_(alertas_inusuales)
       + (IF alerta_proyeccion # DictVacio THEN 1 ELSE 0)
       + Len_(alertas_duplicados),
   alertas_presupuesto |-> alertas_presupuesto,
   alertas_gastos_inusuales |-> alertas_inusuales,
   alerta_proyeccion |->
     IF alerta_proyeccion # DictVacio THEN alerta_proyeccion ELSE NoneType,
   alertas_duplicados |-> alertas_duplicados,
   niveles |->
     [CRITICO |-> CuentaNivel(alertas_presupuesto, "CRITICO"),
      ADVERTENCIA |->
        CuentaNivel(alertas_presupuesto, "ADVERTENCIA")
          + Len_(alertas_inusuales)
          + (IF alerta_proyeccion # DictVacio THEN 1 ELSE 0),
      INFO |-> Len_(alertas_duplicados)]]

\* the report of generar_reporte_alertas before it is saved, and the
\* detector as verificar_gastos_inusuales leaves it
generar_reporte_alertas(self, archivo, tabla, tx, ahora, ok, nanFalla) ==
  Unico({
    [self |-> i.self, archivo |-> i.archivo, guardo |-> i.guardo,
     reporte |->
       ReporteAlertas(verificar_presupuestos(tabla, tx, ahora),
                      i.lista,
                      proyectar_fin_mes(tx, ahora),
                      verificar_gastos_duplicados(tx, ahora, VentanaPorDefecto),
                      ahora)]
    : i \in {verificar_gastos_inusuales(self, archivo, tx, ahora,
                                        DiasInusuales, ok, nanFalla)}})

(***************************************************************************)
(* AnalisisFinanciero.  transacciones_df is the DataFrame of cargar_datos: *)
(* its columns and, as a bag, its rows.  A number that pandas may give as  *)
(* NaN is a record with the flag nan.                                      *)
(***************************************************************************)
Columnas ==
  {"id", "tipo", "fecha", "monto", "categoria", "subcategoria",
   "metodo_pago", "motivo", "es_recurrente"}

\* AnalisisFinanciero.cargar_datos: the new value of self.transacciones_df
cargar_datos(tx) ==
  IF NumTransacciones(tx) = 0 THEN DataFrameVacio
  ELSE [clase |-> "DataFrame", columnas |-> Columnas,
        filas |-> [k \in {x \in DOMAIN tx : tx[x] > 0} |-> tx[k]]]

\* df.empty
Empty(df) == DOMAIN df.filas = {}

NaN == [nan |-> TRUE]

Num(v) == [nan |-> FALSE, v |-> v]

RetE(op, clase, valor) ==
  [op |-> op, exc |-> None, clase |-> clase, valor |-> valor]

\* the rows of the set S in descending order of clave, a function on S
RECURSIVE OrdenarDesc(_, _)
OrdenarDesc(S, clave) ==
  IF S = {} THEN <<>>
  ELSE LET x == CHOOSE y \in S : \A z \in S : clave[y] >= clave[z]
       IN <<x>> \o OrdenarDesc(S \ {x}, clave)

\* a sum that takes the number of rows of each shape from the ledger
SumaMontos_del_libro(filas, S) ==
  SumaDe([k \in S |-> transacciones[k] * k.monto], S)

\* sum of the amounts of the rows S of the bag filas
SumaMontos(filas, S) == SumaDe([k \in S |-> filas[k] * k.monto], S)

\* AnalisisFinanciero.resumen_general
resumen_general(df) ==
  IF Empty(df) THEN RetE("resumen_general", "dict", DictVacio)
  ELSE LET I == {k \in DOMAIN df.filas : k.tipo = "ingreso"}
           G == {k \in DOMAIN df.filas : k.tipo = "gasto"}
           ingresos == SumaMontos(df.filas, I)
           gastos == SumaMontos(df.filas, G)
           balance == ingresos - gastos
       IN RetE("resumen_general", "dict",
            [total_ingresos |-> Round2(ingresos),
             total_gastos |-> Round2(gastos),
             balance |-> RoundDivS(balance, 10),
             promedio_ingreso |->
               IF I = {} THEN 0
               ELSE RoundDiv(ingresos, 10 * SumaDe(df.filas, I)),
             promedio_gasto |->
               IF G = {} THEN 0
               ELSE RoundDiv(gastos, 10 * SumaDe(df.filas, G)),
             num_transacciones |-> NumTransacciones(df.filas),
             \* in hundredths of a percent
             tasa_ahorro |->
               IF ingresos > 0 THEN RoundDivS(balance * 10000, ingresos)
               ELSE 0])

RECURSIVE Mcd(_, _)
Mcd(a, b) == IF b = 0 THEN a ELSE Mcd(b, a % b)

RECURSIVE McdDe(_)
McdDe(S) ==
  IF S = {} THEN 0
  ELSE LET x == CHOOSE y \in S : TRUE IN Mcd(x, McdDe(S \ {x}))

\* the statistics of the amounts of the category cat, in the unit u that
\* divides them all (the comparison with the threshold and the z-score do
\* not depend on the unit): the number n of amounts, their sum s, and
\* v = n * (sum of squares) - s * s, which is n * (n - 1) times the square
\* of the sample standard deviation that pandas std gives
Muestra(filas, cat) ==
  LET G == {k \in Gastos(filas) : k.categoria = cat}
  IN Unico({
       Unico({
         [u |-> u, n |-> n, s |-> s,
          v |-> n * SumaDe([k \in G |->
                             filas[k] * (k.monto \div u) * (k.monto \div u)], G)
                  - s * s]
         : <<n, s>> \in {<<SumaDe(filas, G),
                          SumaDe([k \in G |-> filas[k] * (k.monto \div u)], G)>>}})
       : u \in {McdDe({k.monto : k \in G})}})

\* the integer part of the square root of q, digit by digit
RaizEntera(q) ==
  LET Cabe(x) == x <= 46340 /\ x * x <= q
      Cifra(c, p) ==
        c + p * (CHOOSE d \in 0 .. 9 :
                   Cabe(c + p * d) /\ (d = 9 \/ ~Cabe(c + p * (d + 1))))
  IN Cifra(Cifra(Cifra(Cifra(Cifra(0, 10000), 1000), 100), 10), 1)

\* sqrt(a / (4 * b)) rounded to an integer: the greatest r with
\* (2r - 1)^2 <= a / b
RaizRound(a, b) == (RaizEntera(a \div b) + 1) \div 2

\* the 'std' of groupby.agg rounded to hundredths: NaN for one amount, else
\* u * sqrt(v / (n * (n - 1))) thousandths
DesvStd2(m) ==
  IF m.n = 1 THEN NaN
  ELSE Num(RaizRound(4 * m.u * m.u * m.v, 100 * m.n * (m.n - 1)))

\* AnalisisFinanciero.gastos_por_categoria: the rows of the result in
\* their order.  Total, Promedio and Desv_Std are in hundredths, Porcentaje
\* in hundredths of a percent; the order of rows of one Total is left to
\* sort_values
gastos_por_categoria(df) ==
  IF "tipo" \notin df.columnas
  THEN RetExc("gastos_por_categoria", "KeyError")
  ELSE IF Gastos(df.filas) = {}
  THEN RetE("gastos_por_categoria", "DataFrame", <<>>)
  ELSE LET G == Gastos(df.filas)
           total_gastos == SumaMontos(df.filas, G)
           Fila(c) ==
             Unico({
               [categoria |-> c,
                Total |-> t,
                Promedio |-> RoundDiv(SumaCategoria(df.filas, c),
                                      10 * NumCategoria(df.filas, c)),
                Cantidad |-> NumCategoria(df.filas, c),
                Desv_Std |-> DesvStd2(Muestra(df.filas, c)),
                Porcentaje |-> RoundDiv(t * 100000, total_gastos)]
               : t \in {Round2(SumaCategoria(df.filas, c))}})
           resumen == {Fila(k.categoria) : k \in G}
       IN RetE("gastos_por_categoria", "DataFrame",
               OrdenarDesc(resumen, [r \in resumen |-> r.Total]))

\* AnalisisFinanciero.tendencia_mensual: one row for each month, with a
\* column for each tipo that occurs in the DataFrame
tendencia_mensual(df) ==
  IF Empty(df) THEN RetE("tendencia_mensual", "DataFrame", {})
  ELSE LET F == DOMAIN df.filas
           tipos == {k.tipo : k \in F}
           meses == {<<k.fecha.anio, k.fecha.mes>> : k \in F}
           Suma(mes, tipo) ==
             SumaMontos(df.filas,
               {k \in F : <<k.fecha.anio, k.fecha.mes>> = mes /\ k.tipo = tipo})
       IN RetE("tendencia_mensual", "DataFrame",
            {[mes |-> mes,
              montos |-> [t \in tipos |-> Round2(Suma(mes, t))],
              balance |->
                RoundDivS((IF "ingreso" \in tipos THEN Suma(mes, "ingreso")
                           ELSE 0)
                          - (IF "gasto" \in tipos THEN Suma(mes, "gasto")
                             ELSE 0), 10)]
             : mes \in meses})

\* AnalisisFinanciero.analisis_metodos_pago
analisis_metodos_pago(df) ==
  IF Empty(df) THEN RetE("analisis_metodos_pago", "DataFrame", <<>>)
  ELSE LET F == DOMAIN df.filas
           De(m) == {k \in F : k.metodo_pago = m}
           analisis ==
             {[metodo_pago |-> m,
               Total_Gastado |-> Round2(SumaMontos(df.filas, De(m))),
               Num_Transacciones |-> SumaDe(df.filas, De(m)),
               Monto_Promedio |->
                 RoundDiv(SumaMontos(df.filas, De(m)),
                          10 * SumaDe(df.filas, De(m)))]
              : m \in {k.metodo_pago : k \in F}}
       IN RetE("analisis_metodos_pago", "DataFrame",
               OrdenarDesc(analisis, [r \in analisis |-> r.Total_Gastado]))

NumDesvPorDefecto == 25

MinGastosInusuales == 10

MinMuestrasCategoria == 3

\* monto > media + num_desv * std, with num_desv in tenths:
\* n * monto - s > num_desv * sqrt(n * v / (n - 1))
Supera(monto, m, num_desv) ==
  LET d == m.n * (monto \div m.u) - m.s
  IN d > 0 /\ 100 * d * d * (m.n - 1) > num_desv * num_desv * m.n * m.v

\* round((monto - media) / std, 2) if std > 0 else 0, in hundredths
Desviacion2(monto, m) ==
  LET d == m.n * (monto \div m.u) - m.s
  IN IF m.v > 0
     THEN RaizRound(4 * 10000 * d * d * (m.n - 1), m.n * m.v)
     ELSE 0

\* AnalisisFinanciero.detectar_gastos_inusuales: the rows of the result as
\* a bag; pd.DataFrame([]) has no rows and no columns
detectar_gastos_inusuales(df, num_desv) ==
  IF "tipo" \notin df.columnas
  THEN RetExc("detectar_gastos_inusuales", "KeyError")
  ELSE IF Gastos(df.filas) = {} \/ NumGastos(df.filas) < MinGastosInusuales
  THEN RetE("detectar_gastos_inusuales", "DataFrame", ListaVacia)
  ELSE LET G == Gastos(df.filas)
           cats == {c \in {k.categoria : k \in G} :
                      NumCategoria(df.filas, c) >= MinMuestrasCategoria}
           M == [c \in cats |-> Muestra(df.filas, c)]
           inusuales == {k \in G : /\ k.categoria \in cats
                                   /\ Supera(k.monto, M[k.categoria], num_desv)}
           F(k) ==
             [fecha |-> k.fecha, categoria |-> k.categoria, monto |-> k.monto,
              promedio_categoria |->
                RoundDiv(SumaCategoria(df.filas, k.categoria),
                         10 * NumCategoria(df.filas, k.categoria)),
              desviacion |-> Desviacion2(k.monto, M[k.categoria]),
              motivo |-> None]
           N(k) == df.filas[k]
       IN RetE("detectar_gastos_inusuales", "DataFrame",
               Lista(inusuales, F, N))

DiasFuturoPorDefecto == 30

\* AnalisisFinanciero.proyeccion_simple: the mean of the daily sums of a
\* tipo without rows is NaN, and so is what is computed from it
proyeccion_simple(df, dias_futuro) ==
  IF Empty(df) THEN RetE("proyeccion_simple", "dict", DictVacio)
  ELSE LET F == DOMAIN df.filas
           De(tipo) == {k \in F : k.tipo = tipo}
           Dias(tipo) ==
             Cardinality({<<k.fecha.anio, k.fecha.mes, k.fecha.dia>> :
                            k \in De(tipo)})
           g == SumaMontos(df.filas, De("gasto"))
           dg == Dias("gasto")
           i == SumaMontos(df.filas, De("ingreso"))
           di == Dias("ingreso")
       IN RetE("proyeccion_simple", "dict",
            [dias_proyectados |-> dias_futuro,
             gastos_estimados |->
               IF dg = 0 THEN NaN
               ELSE Num(RoundDiv(g * dias_futuro, 10 * dg)),
             ingresos_estimados |->
               IF di = 0 THEN NaN
               ELSE Num(RoundDiv(i * dias_futuro, 10 * di)),
             balance_estimado |->
               IF dg = 0 \/ di = 0 THEN NaN
               ELSE Num(RoundDivS((i * dg - g * di) * dias_futuro,
                                  10 * di * dg)),
             promedio_gasto_diario |->
               IF dg = 0 THEN NaN ELSE Num(RoundDiv(g, 10 * dg)),
             promedio_ingreso_diario |->
               IF di = 0 THEN NaN ELSE Num(RoundDiv(i, 10 * di))])

TopPorDefecto == 10

\* gastos.nlargest(n, 'monto'): rows are taken in descending order of
\* monto, of one monto in the order of the DataFrame (fecha descending),
\* until n rows are taken
RECURSIVE NLargest(_, _, _)
NLargest(filas, pendientes, n) ==
  IF pendientes = {} \/ n <= 0 THEN <<>>
  ELSE LET k == CHOOSE x \in pendientes :
                  \A y \in pendientes :
                    \/ x.monto > y.monto
                    \/ /\ x.monto = y.monto
                       /\ Minutos(x.fecha) >= Minutos(y.fecha)
           \* fecha is formatted as '%Y-%m-%d'
           r == [fecha |-> [anio |-> k.fecha.anio, mes |-> k.fecha.mes,
                            dia |-> k.fecha.dia],
                 categoria |-> k.categoria, monto |-> k.monto,
                 motivo |-> None, metodo_pago |-> k.metodo_pago]
       IN Unico({Put(resto, r, (IF r \in DOMAIN resto THEN resto[r] ELSE 0)
                                + Min(n, filas[k]))
                 : resto \in {NLargest(filas, pendientes \ {k},
                                       n - filas[k])}})

\* AnalisisFinanciero.top_gastos
top_gastos(df, n) ==
  IF "tipo" \notin df.columnas THEN RetExc("top_gastos", "KeyError")
  ELSE IF Gastos(df.filas) = {} THEN RetE("top_gastos", "DataFrame", ListaVacia)
  ELSE RetE("top_gastos", "DataFrame",
            NLargest(df.filas, Gastos(df.filas), n))

\* AnalisisFinanciero.analisis_recurrencia
analisis_recurrencia(df) ==
  IF "es_recurrente" \notin df.columnas
  THEN RetExc("analisis_recurrencia", "KeyError")
  ELSE LET recurrentes == {k \in DOMAIN df.filas : k.es_recurrente = 1}
           R == {k \in recurrentes : k.tipo = "gasto"}
       IN IF recurrentes = {}
          THEN RetE("analisis_recurrencia", "dict", DictVacio)
          ELSE RetE("analisis_recurrencia", "dict",
                 [total_gastos_recurrentes |-> Round2(SumaMontos(df.filas, R)),
                  numero_gastos_recurrentes |-> SumaDe(df.filas, R),
                  por_categoria |->
                    [c \in {k.categoria : k \in R} |->
                       Round2(SumaMontos(df.filas,
                                {k \in R : k.categoria = c}))]])

(***************************************************************************)
(* DatabaseManager.agregar_transaccion and eliminar_transaccion with a     *)
(* commit that may fail: the table afterwards and what the call returns or *)
(* raises.  commit tells whether session.commit() succeeds.                *)
(***************************************************************************)
db_agregar_transaccion(tx, k, commit) ==
  IF commit
  THEN [tabla |-> [tx EXCEPT ![k] = @ + 1],
        ret |-> [op |-> "agregar_transaccion", exc |-> None, clase |-> "int"]]
  \* session.rollback() and raise
  ELSE [tabla |-> tx, ret |-> RetExc("agregar_transaccion", "SQLAlchemyError")]

\* k is the shape of the row with the id transaccion_id, existe tells
\* whether the query finds the row
db_eliminar_transaccion(tx, k, existe, commit) ==
  IF ~existe
  THEN [tabla |-> tx, ret |-> RetBool("eliminar_transaccion", FALSE)]
  ELSE IF commit
  THEN [tabla |-> [tx EXCEPT ![k] = @ - 1],
        ret |-> RetBool("eliminar_transaccion", TRUE)]
  ELSE [tabla |-> tx, ret |-> RetExc("eliminar_transaccion", "SQLAlchemyError")]

(***************************************************************************)
(* State machine                                                           *)
(***************************************************************************)
\* the state after the imports of main.py on an empty database and an empty
\* data directory, for a ledger that is exercised with the shapes P
Inicio(P) ==
  /\ transacciones = [k \in P |-> 0]
  /\ predictor = PredictorNuevo
  /\ prediccion_gastos_pkl = NoneType
  /\ p_guardado = NoneType
  /\ p_ret = RetInicial
  /\ detector = DetectorNuevo
  /\ detector_anomalias_pkl = NoneType
  /\ d_guardado = NoneType
  /\ d_ret = RetInicial
  /\ presupuestos = {}
  /\ alertas_json = NoneType
  /\ a_ret = RetInicial
  /\ transacciones_df = DataFrameVacio
  /\ e_ret = RetInicial
  /\ l_ret = RetInicial

Init == Inicio(Plantillas)

\* a_ret, e_ret and l_ret hold what the step just taken returned (l_ret:
\* a write of DatabaseManager whose commit may fail): a step that is
\* no call of SistemaAlertas or of AnalisisFinanciero leaves no return
\* value of theirs
SinRetorno ==
  a_ret' = RetInicial /\ e_ret' = RetInicial /\ l_ret' = RetInicial

\* n calls of DatabaseManager.agregar_transaccion with the shape k (one call
\* from the console or the dashboard, a batch from a loop such as that of
\* DataGenerator.generar_datos_prueba)
Agregar(k, n) ==
  /\ NumTransacciones(transacciones) + n <= MaxTransacciones
  /\ transacciones[k] + n \in NivelesDe(k)
  /\ transacciones' = [transacciones EXCEPT ![k] = @ + n]
  /\ SinRetorno
  /\ UNCHANGED <<p_vars, d_vars, presupuestos, alertas_json,
                 transacciones_df>>

agregar_transaccion == \E k \in DOMAIN transacciones : Agregar(k, 1)

agregar_lote == \E k \in DOMAIN transacciones, n \in Lotes : Agregar(k, n)

\* DatabaseManager.eliminar_transaccion of a stored row
eliminar_transaccion ==
  \E k \in DOMAIN transacciones :
    /\ transacciones[k] > 0
    /\ transacciones[k] - 1 \in NivelesDe(k)
    /\ transacciones' = [transacciones EXCEPT ![k] = @ - 1]
    /\ SinRetorno
    /\ UNCHANGED <<p_vars, d_vars, presupuestos, alertas_json,
                   transacciones_df>>

\* DataGenerator.limpiar_datos: every row of the two tables is deleted
limpiar_datos ==
  /\ transacciones' = [k \in DOMAIN transacciones |-> 0]
  /\ presupuestos' = {}
  /\ SinRetorno
  /\ UNCHANGED <<p_vars, d_vars, alertas_json, transacciones_df>>

\* a new process: the module-level predictor and detector are constructed
\* again, the database and the files stay (the construction of the
\* module-level AnalisisFinanciero is the action cargar_datos)
Reiniciar ==
  /\ predictor' = PredictorNuevo
  /\ detector' = DetectorNuevo
  /\ p_ret' = RetInicial
  /\ d_ret' = RetInicial
  /\ SinRetorno
  /\ UNCHANGED <<transacciones, prediccion_gastos_pkl, p_guardado,
                 detector_anomalias_pkl, d_guardado, presupuestos,
                 alertas_json, transacciones_df>>

AplicarP(r) ==
  /\ predictor' = r.self
  /\ prediccion_gastos_pkl' = r.archivo
  /\ p_guardado' = IF r.guardo THEN EstadoP(r.self) ELSE p_guardado
  /\ p_ret' = r.ret
  /\ SinRetorno
  /\ UNCHANGED <<transacciones, d_vars, presupuestos, alertas_json,
                 transacciones_df>>

AplicarD(r) ==
  /\ detector' = r.self
  /\ detector_anomalias_pkl' = r.archivo
  /\ d_guardado' = IF r.guardo THEN EstadoD(r.self) ELSE d_guardado
  /\ d_ret' = r.ret
  /\ SinRetorno
  /\ UNCHANGED <<transacciones, p_vars, presupuestos, alertas_json,
                 transacciones_df>>

\* the outcomes of writing the snapshot, where an operation may write it
SalidasGuardar(self) == IF self.is_trained THEN {TRUE} ELSE BOOLEAN

\* the clock readings that matter to a call
Relojes(a) ==
  IF a.fecha = NoneType THEN Instantes ELSE {CHOOSE i \in Instantes : TRUE}

PEntrenar ==
  \E ok \in BOOLEAN :
  \E r \in {entrenar(predictor, prediccion_gastos_pkl, transacciones, ok)} :
    AplicarP(r)

PCargarModelo ==
  \E c \in {cargar_modelo(predictor, prediccion_gastos_pkl)} :
    AplicarP([self |-> c.self, archivo |-> prediccion_gastos_pkl,
              guardo |-> FALSE, ret |-> RetBool("cargar_modelo", c.valor)])

PPredecirGasto ==
  \E a \in ArgsPredecir :
  \E ahora \in Relojes(a), ok \in SalidasGuardar(predictor) :
  \E r \in {predecir_gasto(predictor, prediccion_gastos_pkl, transacciones,
                           a, ahora, ok)} :
    AplicarP(r)

\* datetime.now() is read when mes or anio is None
RelojesMes(a) ==
  IF a.mes = 0 \/ a.anio = 0 THEN Instantes
  ELSE {CHOOSE i \in Instantes : TRUE}

PPredecirGastosMes ==
  \E a \in ArgsMes :
  \E ahora \in RelojesMes(a), ok \in SalidasGuardar(predictor) :
  \E r \in {predecir_gastos_mes(predictor, prediccion_gastos_pkl,
                                transacciones, a.mes, a.anio, ahora, ok)} :
    AplicarP([r EXCEPT !.ret = Put(Put(@, "args", a), "ahora", ahora)])

DEntrenar ==
  \E ok \in BOOLEAN, nanFalla \in BOOLEAN :
  \E r \in {d_entrenar(detector, detector_anomalias_pkl, transacciones,
                       ok, nanFalla)} :
    AplicarD(r)

DCargarModelo ==
  \E c \in {d_cargar_modelo(detector, detector_anomalias_pkl)} :
    AplicarD([self |-> c.self, archivo |-> detector_anomalias_pkl,
              guardo |-> FALSE, ret |-> RetBool("cargar_modelo", c.valor)])

DDetectarAnomalia ==
  \E a \in ArgsDetectar :
  \E ahora \in Relojes(a), ok \in SalidasGuardar(detector),
     nanFalla \in SalidasGuardar(detector) :
  \E r \in {detectar_anomalia(detector, detector_anomalias_pkl,
                              transacciones, a, ahora, ok, nanFalla)} :
    AplicarD(r)

Libro ==
  \/ agregar_transaccion
  \/ agregar_lote
  \/ eliminar_transaccion
  \/ limpiar_datos
  \/ Reiniciar

\* the predictor alone over the ledger
NextP ==
  \/ Libro
  \/ PEntrenar
  \/ PCargarModelo
  \/ PPredecirGasto
  \/ PPredecirGastosMes

SpecP == Init /\ [][NextP]_vars

\* the detector alone over the ledger
NextD ==
  \/ Libro
  \/ DEntrenar
  \/ DCargarModelo
  \/ DDetectarAnomalia

SpecD == Init /\ [][NextD]_vars

\* the two models share nothing but the ledger, which they only read: the
\* runs of the process in which one of them is exercised
SinUsoP ==
  /\ predictor = PredictorNuevo
  /\ prediccion_gastos_pkl = NoneType
  /\ p_ret = RetInicial

SinUsoD ==
  /\ detector = DetectorNuevo
  /\ detector_anomalias_pkl = NoneType
  /\ d_ret = RetInicial

Next ==
  \/ Libro
  \/ SinUsoD /\ PEntrenar
  \/ SinUsoD /\ PCargarModelo
  \/ SinUsoD /\ PPredecirGasto
  \/ SinUsoD /\ PPredecirGastosMes
  \/ SinUsoP /\ DEntrenar
  \/ SinUsoP /\ DCargarModelo
  \/ SinUsoP /\ DDetectarAnomalia

Spec == Init /\ [][Next]_vars

(***************************************************************************)
(* The budgets and their alerts over the ledger                            *)
(***************************************************************************)
PlantillasPresupuesto == {Cafe, Compra, Mercado, Bus, Octubre, Venta}

InitB == Inicio(PlantillasPresupuesto)

\* the ledger operations of the console and of the dashboard
LibroA ==
  \/ agregar_transaccion
  \/ eliminar_transaccion
  \/ limpiar_datos

\* the arguments crear_presupuesto is exercised with (the dashboard takes
\* amounts from 0.0 and percentages from 0 to 100)
ArgsPresupuesto ==
  { [categoria |-> "Comida", monto_mensual |-> 1000000,
     alerta_porcentaje |-> AlertaPorDefecto],
    [categoria |-> "Comida", monto_mensual |-> 0,
     alerta_porcentaje |-> AlertaPorDefecto],
    [categoria |-> "Comida", monto_mensual |-> 500000,
     alerta_porcentaje |-> 100],
    [categoria |-> "Transporte", monto_mensual |-> 150000,
     alerta_porcentaje |-> AlertaPorDefecto] }

\* the readings of datetime.now() of the budget check: before Mercado and
\* Cafe are dated, and after every expense of November
InstantesPresupuesto ==
  { FechaHM(2026, 11, 9, 8, 0), FechaHM(2026, 11, 10, 12, 0) }

RetLista(op, lista, hoy) ==
  [op |-> op, exc |-> None, clase |-> "list", valor |-> lista, hoy |-> hoy]

AplicarA(tabla, archivo, ret) ==
  /\ presupuestos' = tabla
  /\ alertas_json' = archivo
  /\ a_ret' = ret
  /\ e_ret' = RetInicial
  /\ l_ret' = RetInicial
  /\ UNCHANGED <<transacciones, p_vars, d_vars, transacciones_df>>

CrearPresupuesto(args) ==
  \E a \in args, commit \in BOOLEAN :
  \E r \in {crear_presupuesto(presupuestos, a.categoria, a.monto_mensual,
                              a.alerta_porcentaje, commit)} :
    AplicarA(r.tabla, alertas_json,
             Put(Put(r.ret, "args", a), "commit", commit))

ACrearPresupuesto == CrearPresupuesto(ArgsPresupuesto)

\* the column activo (database.py line 56) is written by no operation of
\* the repository: a row is deactivated by a tool that edits the database
desactivar_presupuesto ==
  \E p \in presupuestos :
    /\ p.activo = 1
    /\ presupuestos' = (presupuestos \ {p}) \cup {[p EXCEPT !.activo = 0]}
    /\ SinRetorno
    /\ UNCHANGED <<transacciones, p_vars, d_vars, alertas_json,
                   transacciones_df>>

AVerificarPresupuestos ==
  \E hoy \in InstantesPresupuesto :
  \E l \in {verificar_presupuestos(presupuestos, transacciones, hoy)} :
    AplicarA(presupuestos, alertas_json,
             RetLista("verificar_presupuestos", l, hoy))

NextB ==
  \/ LibroA
  \/ ACrearPresupuesto
  \/ desactivar_presupuesto
  \/ AVerificarPresupuestos

SpecB == InitB /\ [][NextB]_vars

(***************************************************************************)
(* SpecL: budgets at the limits.  The console takes any number as monthly  *)
(* amount and as percentage (main.py lines 554-555), the dashboard amounts *)
(* from 0.0 and percentages from 0 to 100.  850.00 is 99.96% of 850.30.    *)
(***************************************************************************)
PlantillasLimite == {Cafe, Compra, Mercado, Bus}

InitL == Inicio(PlantillasLimite)

ArgsLimite ==
  { [categoria |-> "Comida", monto_mensual |-> 1000000,
     alerta_porcentaje |-> AlertaPorDefecto],
    [categoria |-> "Comida", monto_mensual |-> 850300,
     alerta_porcentaje |-> AlertaPorDefecto],
    [categoria |-> "Comida", monto_mensual |-> 0,
     alerta_porcentaje |-> AlertaPorDefecto],
    [categoria |-> "Comida", monto_mensual |-> 0,
     alerta_porcentaje |-> 0],
    [categoria |-> "Transporte", monto_mensual |-> -100000,
     alerta_porcentaje |-> 0] }

NextL ==
  \/ agregar_transaccion
  \/ eliminar_transaccion
  \/ CrearPresupuesto(ArgsLimite)
  \/ AVerificarPresupuestos

SpecL == InitL /\ [][NextL]_vars

(***************************************************************************)
(* The duplicate check and the end-of-month projection over the ledger     *)
(***************************************************************************)
PlantillasRecientes == {Cafe, CafeBis, CafeCaro, CafeTarde, Bus, Venta}

InitT == Inicio(PlantillasRecientes)

\* the readings of datetime.now(): between the expenses of 10 November, at
\* noon of that day, 24 hours after CafeCaro, on the last day of the month
InstantesRecientes ==
  { FechaHM(2026, 11, 10, 10, 10), FechaHM(2026, 11, 10, 12, 0),
    FechaHM(2026, 11, 11, 10, 10), FechaHM(2026, 11, 30, 23, 0) }

VentanasHoras == {VentanaPorDefecto, 2}

RetDict(op, valor, hoy) ==
  [op |-> op, exc |-> None, clase |-> "dict", valor |-> valor, hoy |-> hoy]

AVerificarDuplicados ==
  \E ahora \in InstantesRecientes, ventana_horas \in VentanasHoras :
  \E l \in {verificar_gastos_duplicados(transacciones, ahora, ventana_horas)} :
    AplicarA(presupuestos, alertas_json,
             Put(RetLista("verificar_gastos_duplicados", l, ahora),
                 "ventana_horas", ventana_horas))

AProyectarFinMes ==
  \E hoy \in InstantesRecientes :
  \E r \in {proyectar_fin_mes(transacciones, hoy)} :
    AplicarA(presupuestos, alertas_json, RetDict("proyectar_fin_mes", r, hoy))

NextT ==
  \/ LibroA
  \/ AVerificarDuplicados
  \/ AProyectarFinMes

SpecT == InitT /\ [][NextT]_vars

(***************************************************************************)
(* The report of alerts and its file, in a process that starts over the    *)
(* database and the detector snapshot that an earlier process left: a      *)
(* history of MinMuestrasDetector daily expenses and the detector that     *)
(* entrenar fitted to it and saved.                                        *)
(***************************************************************************)
PlantillasReporte == {Diario, Cafe, Bus}

HistoriaDiaria ==
  [k \in PlantillasReporte |-> IF k = Diario THEN MinMuestrasDetector ELSE 0]

InitR ==
  \E e \in {d_entrenar(DetectorNuevo, NoneType, HistoriaDiaria, TRUE, FALSE)} :
    /\ transacciones = HistoriaDiaria
    /\ predictor = PredictorNuevo
    /\ prediccion_gastos_pkl = NoneType
    /\ p_guardado = NoneType
    /\ p_ret = RetInicial
    /\ detector = DetectorNuevo
    /\ detector_anomalias_pkl = e.archivo
    /\ d_guardado = EstadoD(e.self)
    /\ d_ret = RetInicial
    /\ presupuestos = {}
    /\ alertas_json = NoneType
    /\ a_ret = RetInicial
    /\ transacciones_df = cargar_datos(HistoriaDiaria)
    /\ e_ret = RetInicial
    /\ l_ret = RetInicial

ArgsReporte ==
  { [categoria |-> "Comida", monto_mensual |-> 700000,
     alerta_porcentaje |-> AlertaPorDefecto],
    [categoria |-> "Transporte", monto_mensual |-> 150000,
     alerta_porcentaje |-> AlertaPorDefecto] }

\* the reading of datetime.now() of the report
InstantesReporte == { FechaHM(2026, 11, 10, 12, 0) }

\* a call of SistemaAlertas that goes through the detector
AplicarAD(r, archivo, ret) ==
  /\ detector' = r.self
  /\ detector_anomalias_pkl' = r.archivo
  /\ d_guardado' = IF r.guardo THEN EstadoD(r.self) ELSE d_guardado
  /\ alertas_json' = archivo
  /\ a_ret' = ret
  /\ e_ret' = RetInicial
  /\ l_ret' = RetInicial
  /\ UNCHANGED <<transacciones, p_vars, d_ret, presupuestos, transacciones_df>>

\* ok and nanFalla are the outcomes of a training inside detectar_anomalia
AVerificarInusuales ==
  \E ahora \in InstantesReporte, ok \in SalidasGuardar(detector),
     nanFalla \in SalidasGuardar(detector) :
  \E r \in {verificar_gastos_inusuales(detector, detector_anomalias_pkl,
              transacciones, ahora, DiasInusuales, ok, nanFalla)} :
    AplicarAD(r, alertas_json,
              RetLista("verificar_gastos_inusuales", r.lista, ahora))

AGenerarReporte ==
  \E ahora \in InstantesReporte, salida \in SalidasGuardarAlertas,
     ok \in SalidasGuardar(detector), nanFalla \in SalidasGuardar(detector) :
  \E r \in {generar_reporte_alertas(detector, detector_anomalias_pkl,
              presupuestos, transacciones, ahora, ok, nanFalla)} :
    AplicarAD(r, guardar_alertas(alertas_json, r.reporte, salida),
              Put(RetDict("generar_reporte_alertas", r.reporte, ahora),
                  "salida", salida))

ACargarAlertas ==
  \E v \in {cargar_alertas(alertas_json)} :
    AplicarA(presupuestos, alertas_json,
             [op |-> "cargar_alertas", exc |-> None, clase |-> "dict",
              valor |-> v])

NextR ==
  \/ agregar_transaccion
  \/ eliminar_transaccion
  \/ CrearPresupuesto(ArgsReporte)
  \/ DCargarModelo
  \/ AVerificarInusuales
  \/ AGenerarReporte
  \/ ACargarAlertas

SpecR == InitR /\ [][NextR]_vars

(***************************************************************************)
(* SpecE: the statistics of AnalisisFinanciero.  The module-level instance *)
(* is constructed when the process starts, over the database as it is      *)
(* then: Init takes the ledger from LibrosE and loads it.  The actions are *)
(* the operations of the instance.                                         *)
(***************************************************************************)
PlantillasE == {Pan, Cena, Nueve, Diez, Once, Trece, Redondeo, Propina}

LibrosE ==
  {[k \in PlantillasE |-> IF k = Pan THEN n ELSE IF k \in S THEN 1 ELSE 0]
   : n \in 0 .. MaxPan, S \in SUBSET (PlantillasE \ {Pan})}

InitE ==
  \E tx \in LibrosE :
    /\ transacciones = tx
    /\ predictor = PredictorNuevo
    /\ prediccion_gastos_pkl = NoneType
    /\ p_guardado = NoneType
    /\ p_ret = RetInicial
    /\ detector = DetectorNuevo
    /\ detector_anomalias_pkl = NoneType
    /\ d_guardado = NoneType
    /\ d_ret = RetInicial
    /\ presupuestos = {}
    /\ alertas_json = NoneType
    /\ a_ret = RetInicial
    /\ transacciones_df = cargar_datos(tx)
    /\ e_ret = RetInicial
    /\ l_ret = RetInicial

\* the values of num_desv, in tenths, that detectar_gastos_inusuales is
\* called with
NumDesvs == {NumDesvPorDefecto, 10}

\* the values of n that top_gastos is called with
Tops == {TopPorDefecto, 3}

AplicarE(df, ret) ==
  /\ transacciones_df' = df
  /\ e_ret' = ret
  /\ l_ret' = RetInicial
  /\ a_ret' = RetInicial
  /\ UNCHANGED <<transacciones, p_vars, d_vars, presupuestos, alertas_json>>

ECargarDatos ==
  AplicarE(cargar_datos(transacciones),
           [op |-> "cargar_datos", exc |-> None, clase |-> "NoneType"])

EResumenGeneral ==
  \E r \in {resumen_general(transacciones_df)} : AplicarE(transacciones_df, r)

EGastosPorCategoria ==
  \E r \in {gastos_por_categoria(transacciones_df)} :
    AplicarE(transacciones_df, r)

ETendenciaMensual ==
  \E r \in {tendencia_mensual(transacciones_df)} :
    AplicarE(transacciones_df, r)

EAnalisisMetodosPago ==
  \E r \in {analisis_metodos_pago(transacciones_df)} :
    AplicarE(transacciones_df, r)

EDetectarGastosInusuales ==
  \E num_desv \in NumDesvs :
  \E r \in {detectar_gastos_inusuales(transacciones_df, num_desv)} :
    AplicarE(transacciones_df, Put(r, "num_desv", num_desv))

EProyeccionSimple ==
  \E r \in {proyeccion_simple(transacciones_df, DiasFuturoPorDefecto)} :
    AplicarE(transacciones_df, r)

ETopGastos ==
  \E n \in Tops :
  \E r \in {top_gastos(transacciones_df, n)} :
    AplicarE(transacciones_df, Put(r, "n", n))

EAnalisisRecurrencia ==
  \E r \in {analisis_recurrencia(transacciones_df)} :
    AplicarE(transacciones_df, r)

NextE ==
  \/ ECargarDatos
  \/ EResumenGeneral
  \/ EGastosPorCategoria
  \/ ETendenciaMensual
  \/ EAnalisisMetodosPago
  \/ EDetectarGastosInusuales
  \/ EProyeccionSimple
  \/ ETopGastos
  \/ EAnalisisRecurrencia

SpecE == InitE /\ [][NextE]_vars

(***************************************************************************)
(* SpecW: the writes to the two tables, each with a commit that succeeds   *)
(* or fails.                                                               *)
(***************************************************************************)
PlantillasEscritura == {Cafe, Bus, Venta}

InitW == Inicio(PlantillasEscritura)

AplicarL(tabla, ret) ==
  /\ transacciones' = tabla
  /\ l_ret' = ret
  /\ a_ret' = RetInicial
  /\ e_ret' = RetInicial
  /\ UNCHANGED <<p_vars, d_vars, presupuestos, alertas_json,
                 transacciones_df>>

LAgregarTransaccion ==
  \E k \in DOMAIN transacciones, commit \in BOOLEAN :
    /\ NumTransacciones(transacciones) + 1 <= MaxTransacciones
    /\ transacciones[k] + 1 \in NivelesDe(k)
    /\ \E r \in {db_agregar_transaccion(transacciones, k, commit)} :
         AplicarL(r.tabla, Put(r.ret, "commit", commit))

LEliminarTransaccion ==
  \E k \in DOMAIN transacciones, commit \in BOOLEAN :
    /\ transacciones[k] > 0 => transacciones[k] - 1 \in NivelesDe(k)
    /\ \E r \in {db_eliminar_transaccion(transacciones, k,
                                         transacciones[k] > 0, commit)} :
         \* no commit is attempted for an id that is not found
         AplicarL(r.tabla,
                  Put(r.ret, "commit", transacciones[k] > 0 => commit))

NextW ==
  \/ LAgregarTransaccion
  \/ LEliminarTransaccion
  \/ ACrearPresupuesto

SpecW == InitW /\ [][NextW]_vars

(***************************************************************************)
(* SpecM: the two models over snapshot files of every kind.  The process   *)
(* starts with a file that is missing, unreadable, or a dict written by    *)
(* another version of the program that lacks one of the entries; the       *)
(* ledger grows by lots and is emptied.                                    *)
(***************************************************************************)
LibroDeTaxis == [k \in Plantillas |-> IF k = Taxi THEN 50 ELSE 0]

SinEntrada(d, k) == [x \in (DOMAIN d) \ {k} |-> d[x]]

ArchivosP ==
  {NoneType, ArchivoIlegible} \cup
  {SinEntrada(e.archivo, k) :
     k \in {"model", "label_encoders", "feature_columns"},
     e \in {entrenar(PredictorNuevo, NoneType, LibroDeTaxis, TRUE)}}

ArchivosD ==
  {NoneType, ArchivoIlegible} \cup
  {SinEntrada(e.archivo, k) :
     k \in {"model", "scaler"},
     e \in {d_entrenar(DetectorNuevo, NoneType, LibroDeTaxis, TRUE, FALSE)}}

InitM ==
  \E ap \in ArchivosP, ad \in ArchivosD :
    /\ ap = NoneType \/ ad = NoneType
    /\ transacciones = [k \in Plantillas |-> 0]
    /\ predictor = PredictorNuevo
    /\ prediccion_gastos_pkl = ap
    /\ p_guardado = NoneType
    /\ p_ret = RetInicial
    /\ detector = DetectorNuevo
    /\ detector_anomalias_pkl = ad
    /\ d_guardado = NoneType
    /\ d_ret = RetInicial
    /\ presupuestos = {}
    /\ alertas_json = NoneType
    /\ a_ret = RetInicial
    /\ transacciones_df = DataFrameVacio
    /\ e_ret = RetInicial
    /\ l_ret = RetInicial

DiasAnalisisPorDefecto == 30

DAnalizarAnomaliasHistoricas ==
  \E ahora \in Instantes, ok \in SalidasGuardar(detector),
     nanFalla \in SalidasGuardar(detector) :
  \E r \in {analizar_anomalias_historicas(detector, detector_anomalias_pkl,
              transacciones, ahora, DiasAnalisisPorDefecto, ok, nanFalla)} :
    AplicarD([self |-> r.self, archivo |-> r.archivo, guardo |-> r.guardo,
              ret |-> [op |-> "analizar_anomalias_historicas",
                       exc |-> r.exc,
                       clase |-> IF r.exc = None THEN "DataFrame" ELSE "raise",
                       anomalias |-> r.anomalias]])

\* the runs of the process in which one of the two models is called
SinLlamadasP == predictor = PredictorNuevo /\ p_ret = RetInicial

SinLlamadasD == detector = DetectorNuevo /\ d_ret = RetInicial

NextM ==
  \/ agregar_lote
  \/ limpiar_datos
  \/ Reiniciar
  \/ SinLlamadasD /\ PEntrenar
  \/ SinLlamadasD /\ PCargarModelo
  \/ SinLlamadasD /\ PPredecirGasto
  \/ SinLlamadasD /\ PPredecirGastosMes
  \/ SinLlamadasP /\ DEntrenar
  \/ SinLlamadasP /\ DCargarModelo
  \/ SinLlamadasP /\ DDetectarAnomalia
  \/ SinLlamadasP /\ DAnalizarAnomaliasHistoricas

SpecM == InitM /\ [][NextM]_vars

(***************************************************************************)
(* SpecS: the statistics next to the operations of the ledger.  The        *)
(* instance holds the DataFrame of its last cargar_datos while rows are    *)
(* inserted and deleted and the tables are emptied.                        *)
(***************************************************************************)
PlantillasInstantanea == {Pan, Cena, Propina}

InitS == Inicio(PlantillasInstantanea)

NextS ==
  \/ agregar_transaccion
  \/ eliminar_transaccion
  \/ limpiar_datos
  \/ ECargarDatos
  \/ EResumenGeneral
  \/ EGastosPorCategoria
  \/ ETendenciaMensual
  \/ EAnalisisMetodosPago
  \/ EDetectarGastosInusuales
  \/ EProyeccionSimple
  \/ ETopGastos
  \/ EAnalisisRecurrencia

SpecS == InitS /\ [][NextS]_vars

(***************************************************************************)
(* Properties                                                              *)
(***************************************************************************)

\* the snapshot of the model cannot be loaded and the ledger is too small
\* for the model to be trained
SinRecursoD ==
  /\ ~detector.is_trained
  /\ detector_anomalias_pkl = NoneType
  /\ NumGastos(transacciones) < MinMuestrasDetector

SinRecursoP ==
  /\ ~predictor.is_trained
  /\ prediccion_gastos_pkl = NoneType
  /\ NumGastos(transacciones) < MinMuestrasPrediccion

\* C1: detectar_anomalia never raises; called on an untrained detector with
\* no loadable snapshot and too few expenses to train, it returns
\* es_anomalia = False, confianza = 0 and a message.
C1_DetectarNuncaLanza ==
  [][DDetectarAnomalia =>
       /\ d_ret'.exc = None
       /\ SinRecursoD =>
            /\ d_ret'.clase = "dict"
            /\ ~d_ret'.es_anomalia
            /\ d_ret'.confianza = 0
            /\ d_ret'.mensaje = "Modelo no disponible"]_vars

\* C2: the detector's entrenar called with fewer than 30 expenses in the
\* ledger returns False without raising and leaves is_trained as it was.
C2_EntrenarDetectorInsuficiente ==
  [][DEntrenar /\ NumGastos(transacciones) < MinMuestrasDetector =>
       /\ d_ret'.exc = None
       /\ d_ret'.clase = "bool"
       /\ ~d_ret'.valor
       /\ detector'.is_trained = detector.is_trained]_vars

\* C3: the predictor's entrenar called with fewer than 50 expenses in the
\* ledger returns False without raising, and is_trained stays false if it
\* was false.
C3_EntrenarPredictorInsuficiente ==
  [][PEntrenar /\ NumGastos(transacciones) < MinMuestrasPrediccion =>
       /\ p_ret'.exc = None
       /\ p_ret'.clase = "bool"
       /\ ~p_ret'.valor
       /\ ~predictor.is_trained => ~predictor'.is_trained]_vars

\* C4: predecir_gasto on an untrained predictor whose snapshot cannot be
\* loaded and whose implicit training fails for lack of data does not
\* raise.
C4_PredecirSinModeloNoLanza ==
  [][PPredecirGasto /\ SinRecursoP => p_ret'.exc = None]_vars

\* C5: within one process there is no Trained -> Untrained transition: once
\* is_trained is true of the predictor or of the detector, it stays true
\* across train, load, predict/detect and ledger operations.
C5_EntrenadoPermanece ==
  [][Reiniciar \/
       /\ predictor.is_trained => predictor'.is_trained
       /\ detector.is_trained => detector'.is_trained]_vars

\* a trained detector after a retrain that failed
C5_Testigo ==
  /\ detector.is_trained
  /\ d_ret.op = "entrenar"
  /\ d_ret.clase # "dict"

\* the values of a categorical column among the expenses of the ledger
ValoresPresentes(tx, col) == {ValorCategorico(k, col) : k \in Gastos(tx)}

\* C6: every train() of the predictor fits the three encoders afresh: after
\* a train over a ledger with enough expenses the stored encoders cover
\* exactly the values present in the expense set, and the train succeeds
\* also when the ledger holds a category the earlier encoders never saw.
C6_CodificadoresNuevos ==
  [][PEntrenar /\ NumGastos(transacciones) >= MinMuestrasPrediccion =>
       /\ p_ret'.clase = "dict"
       /\ DOMAIN predictor'.label_encoders = Rango(categorical_features)
       /\ \A col \in Rango(categorical_features) :
            predictor'.label_encoders[col] = ValoresPresentes(transacciones, col)]_vars

\* C7: model state is replaced as a unit: a train() that fails leaves
\* estimator, preprocessing state and is_trained unchanged, and one that
\* succeeds leaves an estimator and preprocessing state that are all
\* produced by that call.
C7_ReemplazoAtomico ==
  [][/\ PEntrenar =>
          IF p_ret'.clase = "dict"
          THEN /\ predictor'.is_trained
               /\ predictor'.feature_columns = feature_columns_entrenamiento
               /\ DOMAIN predictor'.label_encoders = Rango(categorical_features)
               /\ \A col \in Rango(categorical_features) :
                    predictor'.label_encoders[col] =
                      LabelFit(ValoresPresentes(transacciones, col))
               /\ predictor'.model =
                    RegressorFit({FilaEntrenamiento(k, predictor'.label_encoders) :
                                    k \in Gastos(transacciones)},
                                 feature_columns_entrenamiento)
          ELSE predictor' = predictor
     /\ DEntrenar =>
          IF d_ret'.clase = "dict"
          THEN /\ detector'.is_trained
               /\ detector'.scaler =
                    ScalerFit({FilaDetectorEntrenamiento(k, transacciones) :
                                 k \in Gastos(transacciones)})
               /\ detector'.model.ajustado
          ELSE detector' = detector]_vars

\* some argument of the call is unknown to the stored encoders
ArgumentoNoVisto(self, a) ==
  \/ ~LabelVisto(self.label_encoders["categoria"], a.categoria)
  \/ ~LabelVisto(self.label_encoders["subcategoria"], Subcategoria(a.subcategoria))
  \/ ~LabelVisto(self.label_encoders["metodo_pago"], a.metodo_pago)

\* C8: on a trained predictor an argument the encoders never saw makes
\* predecir_gasto return the encoding-error outcome without raising, and the
\* caller can tell that outcome from any other: predecir_gasto returns it
\* for no other call, and predecir_gastos_mes leaves a category of the
\* ledger out of its result for no other reason.
C8_ErrorDeCodificacionDistinto ==
  [][/\ PPredecirGasto /\ predictor.is_trained =>
          \A a \in ArgsPredecir :
            p_ret'.args = a =>
              (p_ret'.clase = "NoneType" <=> ArgumentoNoVisto(predictor, a))
     /\ PPredecirGastosMes /\ predictor.is_trained =>
          /\ p_ret'.clase = "dict"
          /\ \A k \in Gastos(transacciones) :
               k.categoria \notin DOMAIN p_ret'.predicciones <=>
                 ArgumentoNoVisto(predictor, ArgsPorDefecto(k.categoria, NoneType))]_vars

\* C9: after a train() has persisted a model, load() restores estimator,
\* preprocessing state and feature-column order equal to those of the
\* persisting instance and sets is_trained, so that the loading instance
\* returns what the persisting instance returns for every input.
C9_IdaYVuelta ==
  /\ (p_ret.op = "cargar_modelo" /\ p_ret.valor) =>
       /\ predictor.is_trained
       /\ p_guardado # NoneType
       /\ EstadoP(predictor) = p_guardado
       /\ \A a \in ArgsPredecir, f \in Instantes :
            PredecirConModelo(predictor, a, f) =
              PredecirConModelo(p_guardado @@ [is_trained |-> TRUE], a, f)
  /\ (d_ret.op = "cargar_modelo" /\ d_ret.valor) =>
       /\ detector.is_trained
       /\ d_guardado # NoneType
       /\ EstadoD(detector) = d_guardado
       /\ \A a \in ArgsDetectar, f \in Instantes :
            DetectarConModelo(detector, transacciones, a, f) =
              DetectarConModelo(d_guardado @@ [is_trained |-> TRUE],
                                transacciones, a, f)

\* a predictor that loaded a persisted model and predicts with it
C9_Testigo ==
  /\ p_ret.op = "cargar_modelo"
  /\ p_ret.valor
  /\ predictor.model # NoneType
  /\ \E a \in ArgsPredecir, f \in Instantes :
       PredecirConModelo(predictor, a, f).clase = "float"

\* C10: predecir_gasto is deterministic: a call with the arguments and the
\* date of the previous call, with no train or load since, returns what
\* the previous call returned.
C10_PrediccionDeterminista ==
  [][/\ predictor.is_trained
     /\ p_ret.op = "predecir_gasto"
     /\ p_ret'.op = "predecir_gasto"
     /\ p_ret'.args = p_ret.args
     /\ p_ret'.fecha = p_ret.fecha
     /\ PPredecirGasto
     => p_ret' = p_ret]_vars

\* a prediction returned by a trained predictor over a ledger that is no
\* longer the one it was trained on
C10_Testigo ==
  /\ predictor.is_trained
  /\ p_ret.op = "predecir_gasto"
  /\ p_ret.clase = "float"
  /\ predictor.model.filas #
       {FilaEntrenamiento(k, predictor.label_encoders) : k \in Gastos(transacciones)}

\* the expenses of the category of the budget p dated from 00:00 on the
\* 1st of the month of hoy through hoy
GastoDelMes(p, hoy) ==
  LET S == {k \in DOMAIN transacciones :
              /\ k.tipo = "gasto"
              /\ k.categoria = p.categoria
              /\ Minutos(k.fecha) >= Minutos(InicioMes(hoy))
              /\ Minutos(k.fecha) <= Minutos(hoy)}
  IN SumaDe([k \in S |-> transacciones[k] * k.monto], S)

\* C11 as stated: verificar_presupuestos emits, for each active budget, one
\* alert iff the expenses of its category dated from the 1st of the month
\* through now, divided by the monthly amount and taken as a percentage,
\* reach the alert threshold of the budget (spend / amount x 100 >=
\* threshold, that is 100 x spend >= threshold x amount), CRITICO iff they
\* reach 100 and ADVERTENCIA otherwise; inactive budgets give no alert.
C11_AlertaSiiUmbral ==
  [][a_ret'.op = "verificar_presupuestos" =>
       LET hoy == a_ret'.hoy
           lista == a_ret'.valor
       IN /\ \A a \in DOMAIN lista :
               \E p \in presupuestos :
                 /\ p.activo = 1 /\ p.categoria = a.categoria
                 /\ a.nivel = IF 100 * GastoDelMes(p, hoy)
                                   >= NivelCritico * p.monto_mensual
                              THEN "CRITICO" ELSE "ADVERTENCIA"
          /\ \A p \in presupuestos :
               (p.activo = 1 /\ (p.monto_mensual > 0 \/ GastoDelMes(p, hoy) > 0))
               => ((\E a \in DOMAIN lista : a.categoria = p.categoria)
                   <=> 100 * GastoDelMes(p, hoy)
                         >= p.alerta_porcentaje * p.monto_mensual)
          /\ Len_(lista) = Cardinality(DOMAIN lista)]_vars

\* C17: after any sequence of crear_presupuesto calls the table holds at
\* most one budget per category; a successful call leaves the budget of its
\* category with the monthly amount and the alert threshold of the call and
\* the budgets of the other categories as they were; a failed call leaves
\* the table as it was.
C17_UpsertPorCategoria ==
  /\ [](\A p, q \in presupuestos : p.categoria = q.categoria => p = q)
  /\ [][a_ret'.op = "crear_presupuesto" =>
          LET a == a_ret'.args
              otras(t) == {p \in t : p.categoria # a.categoria}
          IN IF a_ret'.valor
             THEN /\ \E p \in presupuestos' :
                       /\ p.categoria = a.categoria
                       /\ p.monto_mensual = a.monto_mensual
                       /\ p.alerta_porcentaje = a.alerta_porcentaje
                  /\ otras(presupuestos') = otras(presupuestos)
             ELSE presupuestos' = presupuestos]_vars

\* a call has just updated the budget of a category that was created before
\* the budget of another category
C17_Testigo ==
  /\ a_ret.op = "crear_presupuesto"
  /\ a_ret.valor
  /\ \E p, q \in presupuestos :
       /\ p.categoria = a_ret.args.categoria
       /\ q.categoria # p.categoria
       /\ p.id < q.id

\* the stored transactions one by one: the i-th row of the shape k
Filas == {<<k, i>> : k \in DOMAIN transacciones, i \in 1 .. MaxIguales}
           \cap {f \in (DOMAIN transacciones) \X (1 .. MaxIguales) :
                   f[2] <= transacciones[f[1]]}

\* the unordered pairs of distinct expense transactions of the 24 hours up
\* to ahora whose amounts differ by less than 0.01, whose categories are
\* equal and whose timestamps are at most ventana_horas apart
ParesDuplicados(ahora, ventana_horas) ==
  LET recientes == {f \in Filas :
                      /\ f[1].tipo = "gasto"
                      /\ Minutos(ahora) - Minutos(f[1].fecha) \in 0 .. 1440}
  IN {par \in {{f, g} : f \in recientes, g \in recientes} :
        /\ Cardinality(par) = 2
        /\ \A f, g \in par :
             /\ Abs(f[1].monto - g[1].monto) < 10
             /\ f[1].categoria = g[1].categoria
             /\ Abs(Minutos(f[1].fecha) - Minutos(g[1].fecha))
                  <= 60 * ventana_horas}

\* C12: verificar_gastos_duplicados gives exactly one INFO alert for each
\* unordered pair of distinct expenses of the trailing 24 hours whose
\* amounts differ by less than 0.01, whose categories are equal and whose
\* timestamps are at most the window apart, and no other alert: the alerts
\* that name two timestamps are as many as the qualifying pairs with these
\* timestamps.
C12_UnaAlertaPorPar ==
  [][a_ret'.op = "verificar_gastos_duplicados" =>
       LET lista == a_ret'.valor
           pares == ParesDuplicados(a_ret'.hoy, a_ret'.ventana_horas)
           fechas(par) == {f[1].fecha : f \in par}
       IN /\ Len_(lista) = Cardinality(pares)
          /\ \A a \in DOMAIN lista :
               /\ a.nivel = "INFO"
               /\ a.tipo = "duplicado"
               /\ SumaDe(lista, {b \in DOMAIN lista :
                                   /\ {b.fecha1, b.fecha2} = {a.fecha1, a.fecha2}
                                   /\ b.categoria = a.categoria})
                    = Cardinality({par \in pares :
                                     /\ fechas(par) = {a.fecha1, a.fecha2}
                                     /\ \A f \in par :
                                          f[1].categoria = a.categoria})]_vars

\* three equal expenses have given three alerts, a pair 20 minutes apart
\* one alert, and the pair 90 minutes apart none with the window of 1 hour
C12_Testigo ==
  /\ a_ret.op = "verificar_gastos_duplicados"
  /\ a_ret.ventana_horas = VentanaPorDefecto
  /\ transacciones[Cafe] = 3
  /\ transacciones[CafeBis] = 1
  /\ transacciones[CafeTarde] = 1
  /\ \E a \in DOMAIN a_ret.valor :
       a.fecha1 = Cafe.fecha /\ a.fecha2 = Cafe.fecha /\ a_ret.valor[a] = 3
  /\ \E a \in DOMAIN a_ret.valor :
       a.fecha1 = CafeBis.fecha /\ a.fecha2 = Cafe.fecha /\ a_ret.valor[a] = 3
       /\ a.diferencia_minutos = 200
  /\ \A a \in DOMAIN a_ret.valor :
       ~(a.fecha1 = CafeTarde.fecha /\ a.fecha2 = Cafe.fecha)

\* the income and the expenses dated from the 1st of the month of hoy
\* through hoy
DelMes(tipo, hoy) ==
  LET S == {k \in DOMAIN transacciones :
              /\ k.tipo = tipo
              /\ Minutos(k.fecha) >= Minutos(InicioMes(hoy))
              /\ Minutos(k.fecha) <= Minutos(hoy)}
  IN SumaDe([k \in S |-> transacciones[k] * k.monto], S)

\* C13: with d days elapsed and r days remaining, proyectar_fin_mes returns
\* one ADVERTENCIA iff r > 0 and income + income / d * r is less than
\* expense + expense / d * r, and the empty dict otherwise, in particular
\* when r = 0; the alert reports r and the projected expense and income
\* rounded to cents.
C13_ProyeccionFinMes ==
  [][a_ret'.op = "proyectar_fin_mes" =>
       LET hoy == a_ret'.hoy
           d == hoy.dia
           r == DiasMes(hoy.anio, hoy.mes) - d
           g == DelMes("gasto", hoy)
           i == DelMes("ingreso", hoy)
           v == a_ret'.valor
           \* c is x / d thousandths rounded to hundredths
           EsRedondeo(c, x) == Abs(10 * d * c - x) <= 5 * d
       IN /\ (v # DictVacio) <=> (r > 0 /\ i * d + i * r < g * d + g * r)
          /\ r = 0 => v = DictVacio
          /\ v # DictVacio =>
               /\ v.nivel = "ADVERTENCIA"
               /\ v.proyeccion.dias_restantes = r
               /\ EsRedondeo(v.proyeccion.gastos_proyectado_fin_mes,
                             g * d + g * r)
               /\ EsRedondeo(v.proyeccion.ingresos_proyectado_fin_mes,
                             i * d + i * r)]_vars

\* on day 10 of a month of 30 days with an expense of 200.00 and no income
\* the projected expense is 600.00 and the alert is given
C13_Testigo ==
  /\ a_ret.op = "proyectar_fin_mes"
  /\ a_ret.hoy.dia = 10
  /\ DelMes("gasto", a_ret.hoy) = 200000
  /\ DelMes("ingreso", a_ret.hoy) = 0
  /\ a_ret.valor # DictVacio
  /\ a_ret.valor.proyeccion.gastos_proyectado_fin_mes = 60000
  /\ a_ret.valor.proyeccion.dias_restantes = 20

\* C14: verificar_gastos_inusuales and generar_reporte_alertas return an
\* empty list of anomaly alerts when detector.is_trained is false, and
\* leave is_trained, the estimator and the scaler of the detector as they
\* were in every case.
C14_AgregadorNoEntrena ==
  [][a_ret'.op \in {"verificar_gastos_inusuales", "generar_reporte_alertas"}
     => /\ ~detector.is_trained =>
             IF a_ret'.op = "verificar_gastos_inusuales"
             THEN a_ret'.valor = ListaVacia
             ELSE a_ret'.valor.alertas_gastos_inusuales = ListaVacia
        /\ detector'.is_trained = detector.is_trained
        /\ detector'.model = detector.model
        /\ detector'.scaler = detector.scaler]_vars

\* the report was generated with an untrained detector while a snapshot of
\* a trained one was on disk and expenses of the last 7 days were stored
C14_Testigo ==
  /\ a_ret.op = "generar_reporte_alertas"
  /\ ~detector.is_trained
  /\ detector_anomalias_pkl # NoneType
  /\ transacciones[Cafe] > 0
  /\ NumTransacciones(transacciones) >= MinTransaccionesDetector
  /\ a_ret.valor.alertas_gastos_inusuales = ListaVacia

\* C15: in every report of generar_reporte_alertas the CRITICO count is the
\* number of budget alerts of level CRITICO, the ADVERTENCIA count the
\* number of budget alerts of level ADVERTENCIA plus the anomaly alerts
\* plus 1 if there is a projection alert, the INFO count the number of
\* duplicate alerts, and total_alertas is the sum of the three counts and
\* the number of alert records of the report.
C15_CuentasDelReporte ==
  [][a_ret'.op = "generar_reporte_alertas" =>
       LET r == a_ret'.valor
           cuenta(l, n) == SumaDe(l, {a \in DOMAIN l : a.nivel = n})
           todas(l) == SumaDe(l, DOMAIN l)
           proy == IF r.alerta_proyeccion = NoneType THEN 0 ELSE 1
       IN /\ r.niveles.CRITICO = cuenta(r.alertas_presupuesto, "CRITICO")
          /\ r.niveles.ADVERTENCIA =
               cuenta(r.alertas_presupuesto, "ADVERTENCIA")
                 + todas(r.alertas_gastos_inusuales) + proy
          /\ r.niveles.INFO = todas(r.alertas_duplicados)
          /\ r.total_alertas =
               r.niveles.CRITICO + r.niveles.ADVERTENCIA + r.niveles.INFO
          /\ r.total_alertas =
               todas(r.alertas_presupuesto) + todas(r.alertas_gastos_inusuales)
                 + proy + todas(r.alertas_duplicados)
          /\ \A a \in DOMAIN r.alertas_presupuesto :
               a.nivel \in {"CRITICO", "ADVERTENCIA"}]_vars

\* a report with a CRITICO and an ADVERTENCIA budget alert, anomaly alerts,
\* the projection alert and duplicate alerts
C15_Testigo ==
  /\ a_ret.op = "generar_reporte_alertas"
  /\ a_ret.valor.niveles.CRITICO = 1
  /\ \E a \in DOMAIN a_ret.valor.alertas_presupuesto : a.nivel = "ADVERTENCIA"
  /\ a_ret.valor.alertas_gastos_inusuales # ListaVacia
  /\ a_ret.valor.alerta_proyeccion # NoneType
  /\ a_ret.valor.niveles.INFO = 3
  /\ a_ret.valor.total_alertas = 10

\* C16: after a generar_reporte_alertas whose save succeeds, cargar_alertas
\* returns the report that the call returned; after one whose save fails,
\* the report is still returned and cargar_alertas returns what it returned
\* before the call.
C16_UltimoReporteGuardado ==
  [][a_ret'.op = "generar_reporte_alertas" =>
       IF a_ret'.salida = "escrito"
       THEN cargar_alertas(alertas_json') = a_ret'.valor
       ELSE /\ a_ret'.clase = "dict"
            /\ cargar_alertas(alertas_json') = cargar_alertas(alertas_json)]_vars

\* C11: verificar_presupuestos emits, for each active budget, one alert iff
\* the percentage used reaches the alert threshold of the budget, CRITICO
\* iff it reaches 100 and ADVERTENCIA otherwise, where the percentage used
\* is the expenses of the category dated from the 1st of the month through
\* now divided by the monthly amount, times 100, when the monthly amount is
\* positive, and 0 otherwise; inactive budgets, income and expenses outside
\* the window do not contribute.
C11_AlertaSiiPorcentaje ==
  [][a_ret'.op = "verificar_presupuestos" =>
       LET hoy == a_ret'.hoy
           lista == a_ret'.valor
           Alcanza(p, x) ==
             IF p.monto_mensual > 0
             THEN 100 * GastoDelMes(p, hoy) >= x * p.monto_mensual
             ELSE 0 >= x
       IN /\ \A a \in DOMAIN lista :
               \E p \in presupuestos :
                 /\ p.activo = 1 /\ p.categoria = a.categoria
                 /\ a.nivel = IF Alcanza(p, 100) THEN "CRITICO"
                              ELSE "ADVERTENCIA"
          /\ \A p \in presupuestos :
               p.activo = 1 =>
                 ((\E a \in DOMAIN lista : a.categoria = p.categoria)
                    <=> Alcanza(p, p.alerta_porcentaje))
          /\ Len_(lista) = Cardinality(DOMAIN lista)]_vars

\* with a budget of 1000.00 and a threshold of 80, expenses of 850.00 have
\* given an ADVERTENCIA at 85.0, next to income and an expense of the
\* previous month in the category
C11_Testigo ==
  /\ a_ret.op = "verificar_presupuestos"
  /\ transacciones[Octubre] = 1
  /\ transacciones[Venta] = 1
  /\ \E p \in presupuestos :
       /\ p.activo = 1 /\ p.monto_mensual = 1000000
       /\ p.alerta_porcentaje = 80
       /\ GastoDelMes(p, a_ret.hoy) = 850000
       /\ \E a \in DOMAIN a_ret.valor :
            /\ a.categoria = p.categoria /\ a.nivel = "ADVERTENCIA"
            /\ a.porcentaje_usado = 850 /\ a.gasto_actual = 85000
            /\ a.presupuesto_total = 100000


\* the eight read operations of AnalisisFinanciero
LecturasE ==
  {"resumen_general", "gastos_por_categoria", "tendencia_mensual",
   "analisis_metodos_pago", "detectar_gastos_inusuales", "proyeccion_simple",
   "top_gastos", "analisis_recurrencia"}

\* an empty dict or a DataFrame without rows
ResultadoVacio(ret) ==
  IF ret.clase = "dict" THEN ret.valor = DictVacio
  ELSE IF ret.op = "tendencia_mensual" THEN ret.valor = {}
  ELSE ret.valor = <<>>

\* what a result says about expenses is zero
ResultadoCero(ret) ==
  CASE ret.op = "resumen_general" ->
         ret.valor.total_gastos = 0 /\ ret.valor.promedio_gasto = 0
    [] ret.op = "proyeccion_simple" ->
         /\ ret.valor.gastos_estimados = Num(0)
         /\ ret.valor.promedio_gasto_diario = Num(0)
    [] ret.op = "analisis_recurrencia" ->
         /\ ret.valor.total_gastos_recurrentes = 0
         /\ ret.valor.numero_gastos_recurrentes = 0
    [] ret.op = "tendencia_mensual" ->
         \A f \in ret.valor : "gasto" \notin DOMAIN f.montos
    [] ret.op = "analisis_metodos_pago" -> TRUE
    [] OTHER -> FALSE

\* C18: a read operation of AnalisisFinanciero that is called on an empty
\* snapshot, or on a snapshot without expenses, does not raise and returns
\* an empty or zero result.
C18_LecturasSinGastos ==
  [][/\ e_ret'.op \in LecturasE
     /\ Gastos(transacciones_df.filas) = {}
     => /\ e_ret'.clase # "raise"
        /\ IF Empty(transacciones_df) THEN ResultadoVacio(e_ret')
           ELSE ResultadoVacio(e_ret') \/ ResultadoCero(e_ret')]_vars


\* the expense rows of the category cat in the bag tx, one row of each
\* shape of the set menos left out
Muestras(tx, cat, menos) ==
  LET G == {k \in Gastos(tx) : k.categoria = cat}
  IN [k \in G |-> IF k \in menos THEN tx[k] - 1 ELSE tx[k]]

\* the unit that the amounts of the category cat are counted in
Unidad(tx, cat) == McdDe({k.monto : k \in {j \in Gastos(tx) : j.categoria = cat}})

\* monto compared with mean + (c / 10) * std of the amounts of the bag m,
\* std being the sample standard deviation: with n amounts of sum s,
\* n * (monto - mean) is d = n * monto - s and (n * std)^2 * (n - 1) is the
\* sum ss of the squares (n * x - s)^2.  Amounts are counted in the unit u.
\* The value is "mayor", "igual" or "menor"; a bag of fewer than two
\* amounts has no standard deviation
ContraUmbral(monto, m, c, u) ==
  LET G == DOMAIN m
      n == SumaDe(m, G)
      s == SumaDe([k \in G |-> m[k] * (k.monto \div u)], G)
      ss == SumaDe([k \in G |->
                      m[k] * (n * (k.monto \div u) - s)
                           * (n * (k.monto \div u) - s)], G)
      d == n * (monto \div u) - s
  IN IF n < 2 THEN "indefinido"
     ELSE IF d <= 0 THEN (IF d = 0 /\ ss = 0 THEN "igual" ELSE "menor")
     ELSE IF 100 * d * d * (n - 1) > c * c * ss THEN "mayor"
     ELSE IF 100 * d * d * (n - 1) = c * c * ss THEN "igual"
     ELSE "menor"

\* r is 100 * (monto - mean) / std to the nearest integer, or 0 when std
\* is 0
EsZScore(r, monto, m, u) ==
  LET G == DOMAIN m
      n == SumaDe(m, G)
      s == SumaDe([k \in G |-> m[k] * (k.monto \div u)], G)
      ss == SumaDe([k \in G |->
                      m[k] * (n * (k.monto \div u) - s)
                           * (n * (k.monto \div u) - s)], G)
      d == n * (monto \div u) - s
  IN IF ss = 0 THEN r = 0
     ELSE /\ (2 * r - 1) * (2 * r - 1) * ss <= 4 * 10000 * d * d * (n - 1)
          /\ 4 * 10000 * d * d * (n - 1) <= (2 * r + 1) * (2 * r + 1) * ss

\* the expense k of the bag tx is to be flagged with num_desv = c / 10
Inusual(tx, k, c) ==
  /\ NumCategoria(tx, k.categoria) >= 3
  /\ ContraUmbral(k.monto, Muestras(tx, k.categoria, {}), c,
                  Unidad(tx, k.categoria)) = "mayor"

\* the amount of k is mean + (c / 10 + 0.5) * std of the other amounts of
\* its category, which has at least 3 samples
Construido(tx, k, c) ==
  /\ NumCategoria(tx, k.categoria) >= 3
  /\ ContraUmbral(k.monto, Muestras(tx, k.categoria, {k}), c + 5,
                  Unidad(tx, k.categoria)) = "igual"
  /\ \E j \in Gastos(tx) : j.categoria = k.categoria /\ j.monto # k.monto

\* the rows of the result for the expense k
FilasDe(valor, k) ==
  {f \in DOMAIN valor :
     f.fecha = k.fecha /\ f.categoria = k.categoria /\ f.monto = k.monto}

\* C19: detectar_gastos_inusuales returns nothing on a snapshot of fewer
\* than 10 expenses; otherwise it flags exactly the expenses of categories
\* with at least 3 samples whose amount is strictly greater than
\* mean + k * std of the category (the expense included), each with its
\* z-score (to the two decimals reported) or 0 when std is 0, and it flags
\* an amount constructed as mean + (k + 0.5) * std.
C19_InusualesExactos ==
  [][e_ret'.op = "detectar_gastos_inusuales" =>
       /\ e_ret'.clase = "DataFrame"
       /\ IF NumGastos(transacciones_df.filas) < 10
          THEN e_ret'.valor = <<>>
          ELSE \A k \in Gastos(transacciones_df.filas) :
                 /\ Len_([f \in FilasDe(e_ret'.valor, k) |-> e_ret'.valor[f]])
                      = IF Inusual(transacciones_df.filas, k, e_ret'.num_desv)
                        THEN transacciones_df.filas[k] ELSE 0
                 /\ \A f \in FilasDe(e_ret'.valor, k) :
                      EsZScore(f.desviacion, k.monto,
                               Muestras(transacciones_df.filas, k.categoria,
                                        {}),
                               Unidad(transacciones_df.filas, k.categoria))
                 /\ Construido(transacciones_df.filas, k, e_ret'.num_desv)
                      => FilasDe(e_ret'.valor, k) # {}]_vars


\* the rows of the result of gastos_por_categoria for the category cat
FilasCategoria(valor, cat) == {i \in DOMAIN valor : valor[i].categoria = cat}

\* every expense of the snapshot is in exactly one row, the counts of the
\* rows sum to the number of expenses, and the rows are in descending order
\* of Total
ParticionOrdenada(filas, valor) ==
  /\ \A k \in Gastos(filas) :
       Cardinality(FilasCategoria(valor, k.categoria)) = 1
  /\ \A i \in DOMAIN valor :
       \E k \in Gastos(filas) : k.categoria = valor[i].categoria
  /\ SumaDe([i \in DOMAIN valor |-> valor[i].Cantidad], DOMAIN valor)
       = NumGastos(filas)
  /\ \A i, j \in DOMAIN valor : i < j => valor[i].Total >= valor[j].Total

\* the sum of the column Total, in thousandths
SumaTotales(valor) ==
  10 * SumaDe([i \in DOMAIN valor |-> valor[i].Total], DOMAIN valor)

\* C20 as stated: for a snapshot with expenses, gastos_por_categoria puts
\* every expense in exactly one row, the totals of the rows sum to the sum
\* of all expense amounts, the counts sum to the number of expenses, and
\* the rows are in descending order of total.
C20_ParticionExacta ==
  [][/\ e_ret'.op = "gastos_por_categoria"
     /\ Gastos(transacciones_df.filas) # {}
     => /\ e_ret'.clase = "DataFrame"
        /\ ParticionOrdenada(transacciones_df.filas, e_ret'.valor)
        /\ SumaTotales(e_ret'.valor)
             = SumaMontos(transacciones_df.filas,
                          Gastos(transacciones_df.filas))]_vars

\* C20: for a snapshot with expenses, gastos_por_categoria puts every
\* expense in exactly one row, the total of each row is the sum of the
\* amounts of its category rounded to 2 decimals (so the totals sum to the
\* sum of all expense amounts when every amount is a whole number of
\* hundredths), the counts sum to the number of expenses, and the rows are
\* in descending order of total.
C20_ParticionRedondeada ==
  [][/\ e_ret'.op = "gastos_por_categoria"
     /\ Gastos(transacciones_df.filas) # {}
     => /\ e_ret'.clase = "DataFrame"
        /\ ParticionOrdenada(transacciones_df.filas, e_ret'.valor)
        /\ \A i \in DOMAIN e_ret'.valor :
             e_ret'.valor[i].Total
               = Round2(SumaMontos(transacciones_df.filas,
                          {k \in Gastos(transacciones_df.filas) :
                             k.categoria = e_ret'.valor[i].categoria}))
        /\ (\A k \in Gastos(transacciones_df.filas) : k.monto % 10 = 0)
             => SumaTotales(e_ret'.valor)
                  = SumaMontos(transacciones_df.filas,
                               Gastos(transacciones_df.filas))]_vars

\* gastos_por_categoria has returned three rows for a snapshot that holds
\* several equal expenses and the expense of 0.004
C20_Testigo ==
  /\ e_ret.op = "gastos_por_categoria"
  /\ e_ret.clase = "DataFrame"
  /\ Len(e_ret.valor) = 3
  /\ Redondeo \in DOMAIN transacciones_df.filas
  /\ Pan \in DOMAIN transacciones_df.filas
  /\ transacciones_df.filas[Pan] >= 2
  /\ e_ret.valor[3].Total = 0


\* the active budget that the alert a is about
PresupuestoDe(a) ==
  CHOOSE p \in presupuestos : p.activo = 1 /\ p.categoria = a.categoria

\* C28 as stated: in every alert of verificar_presupuestos the level is
\* CRITICO iff the reported porcentaje_usado (one decimal) is at least 100,
\* and the reported porcentaje_usado is at least the alert threshold of the
\* budget.
C28_NivelSegunReportado ==
  [][a_ret'.op = "verificar_presupuestos" =>
       \A a \in DOMAIN a_ret'.valor :
         /\ (a.nivel = "CRITICO") <=> (a.porcentaje_usado >= 10 * NivelCritico)
         /\ a.porcentaje_usado >= 10 * PresupuestoDe(a).alerta_porcentaje]_vars

\* C28: in every alert of verificar_presupuestos the level is CRITICO iff
\* the percentage used before rounding is at least 100, so that a CRITICO
\* alert reports at least 100.0, an alert that reports less than 100.0 is
\* an ADVERTENCIA, and an ADVERTENCIA reports at most 100.0; the reported
\* porcentaje_usado is at least the alert threshold of the budget (rounded
\* to one decimal: thresholds are whole percentages here).
C28_NivelSegunPorcentaje ==
  [][a_ret'.op = "verificar_presupuestos" =>
       \A a \in DOMAIN a_ret'.valor :
         LET p == PresupuestoDe(a)
             critico == /\ p.monto_mensual > 0
                        /\ GastoDelMes(p, a_ret'.hoy) >= p.monto_mensual
         IN /\ (a.nivel = "CRITICO") <=> critico
            /\ a.nivel \in {"CRITICO", "ADVERTENCIA"}
            /\ a.nivel = "CRITICO" => a.porcentaje_usado >= 10 * NivelCritico
            /\ a.nivel = "ADVERTENCIA"
                 => a.porcentaje_usado <= 10 * NivelCritico
            /\ a.porcentaje_usado >= 10 * p.alerta_porcentaje]_vars

\* an ADVERTENCIA has been given that reports 100.0: 850.00 spent of 850.30
C28_Testigo ==
  /\ a_ret.op = "verificar_presupuestos"
  /\ \E a \in DOMAIN a_ret.valor :
       /\ a.nivel = "ADVERTENCIA"
       /\ a.porcentaje_usado = 1000
       /\ a.gasto_actual = 85000
       /\ a.presupuesto_total = 85030

\* C29: an active budget whose monthly amount is zero or negative is 0%
\* used whatever was spent in its category: verificar_presupuestos returns
\* its list (no division error), with no CRITICO alert for the budget, and
\* with an alert for it only if its threshold is at most 0.
C29_PresupuestoNoPositivo ==
  [][a_ret'.op = "verificar_presupuestos" =>
       /\ a_ret'.clase = "list"
       /\ \A p \in presupuestos :
            (p.activo = 1 /\ p.monto_mensual <= 0) =>
              \A a \in DOMAIN a_ret'.valor :
                a.categoria = p.categoria =>
                  /\ a.nivel = "ADVERTENCIA"
                  /\ a.porcentaje_usado = 0
                  /\ p.alerta_porcentaje <= 0]_vars

\* budgets of 0 and of -100.00 with threshold 0 have given an ADVERTENCIA
\* at 0.0 each while expenses were in their categories, and a budget of 0
\* with threshold 80 has given none
C29_Testigo ==
  /\ a_ret.op = "verificar_presupuestos"
  /\ \E p \in presupuestos :
       /\ p.activo = 1 /\ p.monto_mensual = 0
       /\ GastoDelMes(p, a_ret.hoy) > 0
       /\ \/ /\ p.alerta_porcentaje = 0
             /\ \E a \in DOMAIN a_ret.valor :
                  a.categoria = p.categoria /\ a.porcentaje_usado = 0
          \/ /\ p.alerta_porcentaje = AlertaPorDefecto
             /\ \A a \in DOMAIN a_ret.valor : a.categoria # p.categoria
  /\ \E p \in presupuestos :
       /\ p.activo = 1 /\ p.monto_mensual < 0
       /\ GastoDelMes(p, a_ret.hoy) > 0
       /\ \E a \in DOMAIN a_ret.valor :
            a.categoria = p.categoria /\ a.nivel = "ADVERTENCIA"


\* C30: proyectar_fin_mes gives its alert iff days remain in the month and
\* the income of the month to date is strictly less than its expense; the
\* balances that the alert reports have the sign of the balance to date:
\* the current one is the balance to date rounded to hundredths, the
\* projected one is that balance times (days in month / days elapsed)
\* rounded to hundredths, so neither is positive and the projected one is
\* not above the current one.
C30_AlertaSiiDeficit ==
  [][a_ret'.op = "proyectar_fin_mes" =>
       LET hoy == a_ret'.hoy
           d == hoy.dia
           m == DiasMes(hoy.anio, hoy.mes)
           g == DelMes("gasto", hoy)
           i == DelMes("ingreso", hoy)
           v == a_ret'.valor
       IN /\ (v # DictVacio) <=> (m - d > 0 /\ i < g)
          /\ v # DictVacio =>
               /\ Abs(10 * v.proyeccion.balance_actual - (i - g)) <= 5
               /\ Abs(10 * d * v.proyeccion.balance_proyectado_fin_mes
                        - (i - g) * m) <= 5 * d
               /\ v.proyeccion.balance_proyectado_fin_mes
                    <= v.proyeccion.balance_actual
               /\ v.proyeccion.balance_actual <= 0]_vars

\* with an income of 500.00 and more than that spent, the alert was given
\* while days remained
C30_Testigo ==
  /\ a_ret.op = "proyectar_fin_mes"
  /\ DelMes("ingreso", a_ret.hoy) = 500000
  /\ DelMes("gasto", a_ret.hoy) > 500000
  /\ a_ret.valor # DictVacio
  /\ a_ret.valor.proyeccion.balance_actual < 0
  /\ a_ret.valor.proyeccion.balance_proyectado_fin_mes
       < a_ret.valor.proyeccion.balance_actual


\* C21: a write whose commit fails raises and leaves the table as it was:
\* agregar_transaccion and eliminar_transaccion on the table of
\* transactions, crear_presupuesto on the table of budgets.
C21_EscrituraFallidaSeEleva ==
  [][/\ l_ret'.op \in {"agregar_transaccion", "eliminar_transaccion"}
          /\ ~l_ret'.commit
          => l_ret'.clase = "raise" /\ transacciones' = transacciones
     /\ a_ret'.op = "crear_presupuesto" /\ ~a_ret'.commit
          => a_ret'.clase = "raise" /\ presupuestos' = presupuestos]_vars


\* the step is a call of the operation op of the predictor (of the
\* detector): p_ret (d_ret) keeps the last return value over the steps of
\* the ledger, which are those that change transacciones
LlamadaP(op) == p_ret'.op = op /\ transacciones' = transacciones

LlamadaD(op) == d_ret'.op = op /\ transacciones' = transacciones

\* C26: a cargar_modelo that returns False (snapshot missing, unreadable or
\* lacking an entry) leaves the estimator, the encoders and feature columns
\* or the scaler, and is_trained of the instance as they were, on the
\* predictor and on the detector.
C26_CargaFallidaAtomica ==
  [][/\ LlamadaP("cargar_modelo") /\ ~p_ret'.valor
          => predictor' = predictor
     /\ LlamadaD("cargar_modelo") /\ ~d_ret'.valor
          => detector' = detector]_vars


\* the file holds every entry that cargar_modelo reads
CargableP(archivo) ==
  /\ archivo.clase = "dict"
  /\ {"model", "label_encoders", "feature_columns"} \subseteq DOMAIN archivo

CargableD(archivo) ==
  archivo.clase = "dict" /\ {"model", "scaler"} \subseteq DOMAIN archivo

SinHistorico(ret) ==
  /\ ret.clase = "dict"
  /\ ~ret.es_anomalia
  /\ ret.confianza = 0
  /\ ret.mensaje = "No hay historico de esta categoria"
  /\ ret.mensaje # "Modelo no disponible"
  \* no score of the model and no statistics of the category
  /\ DOMAIN ret = {"op", "args", "fecha", "exc", "clase", "es_anomalia",
                   "confianza", "mensaje"}

\* C23: a detectar_anomalia that leaves the detector trained (it was
\* trained, or the call loaded or trained it) for a category with no
\* expense in the ledger returns es_anomalia = False, confianza = 0 and the
\* message of the missing history, without a score of the model; and that
\* message is only returned with is_trained true and for such a category.
C23_SinHistoricoTrasModelo ==
  [][LlamadaD("detectar_anomalia") =>
       /\ /\ detector'.is_trained
          /\ NumCategoria(transacciones, d_ret'.args.categoria) = 0
          => SinHistorico(d_ret')
       /\ /\ d_ret'.clase = "dict"
          /\ d_ret'.mensaje = "No hay historico de esta categoria"
          => /\ detector'.is_trained
             /\ NumCategoria(transacciones, d_ret'.args.categoria) = 0
             /\ ~detector.is_trained /\ CargableD(detector_anomalias_pkl)
                  => detector' = d_cargar_modelo(detector,
                                   detector_anomalias_pkl).self
             /\ detector.is_trained => detector' = detector]_vars

\* the detector was trained, the ledger was emptied, and the call for
\* Transporte returned the message of the missing history
C23_Testigo ==
  /\ d_ret.op = "detectar_anomalia"
  /\ d_ret.clase = "dict"
  /\ d_ret.mensaje = "No hay historico de esta categoria"
  /\ d_ret.args.categoria = "Transporte"
  /\ detector.is_trained
  /\ NumTransacciones(transacciones) = 0


\* the month after that of the clock reading
MesSiguiente(ahora) ==
  IF ahora.mes < 12 THEN [mes |-> ahora.mes + 1, anio |-> ahora.anio]
  ELSE [mes |-> 1, anio |-> ahora.anio + 1]

\* what predecir_gasto returns for the category on day 15 of the month of
\* the result ret, with the predictor as the call left it
PrediccionDia15(self, ret, categoria) ==
  PredecirConModelo(self,
                    ArgsPorDefecto(categoria, Fecha(ret.anio, ret.mes, 15, 0)),
                    Fecha(ret.anio, ret.mes, 15, 0))

\* C24: the dict that predecir_gastos_mes returns holds, for every category
\* of an expense of the ledger, 20 times what predecir_gasto returns for
\* that category on day 15 of the target month, and TOTAL, the sum of those
\* entries; without a month the target is the month after the current one
\* (January of the next year in December).
C24_EntradaPorCategoria ==
  [][LlamadaP("predecir_gastos_mes") /\ p_ret'.clase = "dict" =>
       /\ p_ret'.args.mes = 0 =>
            [mes |-> p_ret'.mes, anio |-> p_ret'.anio]
              = MesSiguiente(p_ret'.ahora)
       /\ p_ret'.args.mes # 0 /\ p_ret'.args.anio # 0 =>
            p_ret'.mes = p_ret'.args.mes /\ p_ret'.anio = p_ret'.args.anio
       /\ DOMAIN p_ret'.predicciones
            = {k.categoria : k \in Gastos(transacciones)}
       /\ \A c \in DOMAIN p_ret'.predicciones :
            \E r \in {PrediccionDia15(predictor', p_ret', c)} :
              /\ r.clase = "float"
              /\ p_ret'.predicciones[c] = 20 * r.centavos
       /\ p_ret'.TOTAL
            = SumaDe(p_ret'.predicciones, DOMAIN p_ret'.predicciones)]_vars


\* the step returned from one of the operations ops: it left a return value
\* other than the one before, or the same one and the ledger as it was (the
\* steps of the ledger keep the return values and change the ledger)
Retorno(antes, despues, ops) ==
  /\ despues.op \in ops
  /\ despues # antes \/ transacciones' = transacciones

\* C27: with is_trained true, predecir_gasto, predecir_gastos_mes,
\* detectar_anomalia and analizar_anomalias_historicas leave the estimator,
\* the encoders and feature columns or the scaler, the snapshot file and
\* the ledger as they were, whatever the ledger holds.
C27_EntrenadoSoloLee ==
  [][/\ /\ Retorno(p_ret, p_ret', {"predecir_gasto", "predecir_gastos_mes"})
        /\ predictor.is_trained
        => /\ predictor' = predictor
           /\ prediccion_gastos_pkl' = prediccion_gastos_pkl
           /\ p_guardado' = p_guardado
           /\ transacciones' = transacciones
           /\ presupuestos' = presupuestos
     /\ /\ Retorno(d_ret, d_ret', {"detectar_anomalia",
                                   "analizar_anomalias_historicas"})
        /\ detector.is_trained
        => /\ detector' = detector
           /\ detector_anomalias_pkl' = detector_anomalias_pkl
           /\ d_guardado' = d_guardado
           /\ transacciones' = transacciones
           /\ presupuestos' = presupuestos]_vars

\* the call for an expense of 100.00 on a trained detector whose snapshot
\* is on disk found the ledger emptied
C27_Testigo ==
  /\ d_ret.op = "detectar_anomalia"
  /\ d_ret.args.monto = 100000
  /\ d_ret.clase = "dict"
  /\ d_ret.mensaje = "No hay historico de esta categoria"
  /\ detector.is_trained
  /\ detector_anomalias_pkl = InstantaneaD(detector)
  /\ \A k \in DOMAIN transacciones : transacciones[k] = 0


\* what the operation of the return value ret gives on the DataFrame df
ResultadoDe(df, ret) ==
  CASE ret.op = "resumen_general" -> resumen_general(df)
    [] ret.op = "gastos_por_categoria" -> gastos_por_categoria(df)
    [] ret.op = "tendencia_mensual" -> tendencia_mensual(df)
    [] ret.op = "analisis_metodos_pago" -> analisis_metodos_pago(df)
    [] ret.op = "detectar_gastos_inusuales" ->
         Put(detectar_gastos_inusuales(df, ret.num_desv),
             "num_desv", ret.num_desv)
    [] ret.op = "proyeccion_simple" ->
         proyeccion_simple(df, DiasFuturoPorDefecto)
    [] ret.op = "top_gastos" -> Put(top_gastos(df, ret.n), "n", ret.n)
    [] ret.op = "analisis_recurrencia" -> analisis_recurrencia(df)

\* C25: a statistics operation leaves the DataFrame and the two tables as
\* they were and returns what it gives on the DataFrame of the last
\* cargar_datos, whatever the ledger holds now (resumen_general counts and
\* sums the rows of the DataFrame); an insert, a delete or a clear of the
\* ledger leaves the DataFrame as it was, and cargar_datos replaces it by
\* the rows of the ledger.
C25_ResultadoDeLaInstantanea ==
  [][/\ e_ret'.op \in LecturasE
          => /\ transacciones_df' = transacciones_df
             /\ transacciones' = transacciones
             /\ presupuestos' = presupuestos
             /\ e_ret' = ResultadoDe(transacciones_df, e_ret')
     /\ e_ret'.op = "resumen_general" /\ ~Empty(transacciones_df)
          => LET filas == transacciones_df.filas
                 G == {k \in DOMAIN filas : k.tipo = "gasto"}
                 I == {k \in DOMAIN filas : k.tipo = "ingreso"}
             IN /\ e_ret'.valor.num_transacciones
                     = SumaDe(filas, DOMAIN filas)
                /\ e_ret'.valor.total_gastos
                     = Round2(SumaDe([k \in G |-> filas[k] * k.monto], G))
                /\ e_ret'.valor.total_ingresos
                     = Round2(SumaDe([k \in I |-> filas[k] * k.monto], I))
     /\ e_ret'.op = "cargar_datos"
          => /\ transacciones_df' = cargar_datos(transacciones)
             /\ transacciones' = transacciones
     /\ e_ret'.op \notin LecturasE \cup {"cargar_datos"}
          => transacciones_df' = transacciones_df]_vars

\* resumen_general on a DataFrame of two rows after the ledger was emptied
C25_Testigo ==
  /\ e_ret.op = "resumen_general"
  /\ e_ret.valor # DictVacio
  /\ e_ret.valor.num_transacciones = 2
  /\ e_ret.valor.total_gastos > 0
  /\ \A k \in DOMAIN transacciones : transacciones[k] = 0

====
